---------------------------- MODULE Spec2Model ----------------------------
(***************************************************************************)
(* Month View Task Planner (React + useReducer + date-fns).                *)
(*                                                                         *)
(* The module models                                                       *)
(*   - lib/dates.ts         civil date helpers and the month grid          *)
(*   - lib/taskSegments.ts  per-week segments and row stacking             *)
(*   - App.tsx              appReducer, filterTasks and the App callbacks  *)
(*   - CalendarMonth.tsx, DayCell.tsx, TaskBar.tsx, TaskModal.tsx          *)
(*                          the pointer / keyboard handlers, the effects   *)
(*                          that own document listeners and body styles    *)
(*                                                                         *)
(* Representation of dates.                                                *)
(*   An ISO string "YYYY-MM-DD" is the integer YYYYMMDD: numeric order is  *)
(*   the lexicographic order of the strings.  A JavaScript Date is the     *)
(*   integer 2 * (days since 1970-01-01) + tod, tod = 0 for local          *)
(*   midnight and tod = 1 for 23:59:59.999 of that day (the only two times *)
(*   of day the program produces), so that comparing two Dates compares    *)
(*   these integers.  parseISO and format convert between the two with     *)
(*   real calendar arithmetic.                                             *)
(***************************************************************************)
EXTENDS Integers, Sequences, FiniteSets, TLC

VARIABLES
    state,        \* AppState of App.tsx: tasks, selection, modal, filters, currentMonth
    gridMonth,    \* the month CalendarMonth's effect built its weekRows state for
    bars,         \* the mounted TaskBar components: key |-> local state
    listeners,    \* listeners registered on document
    bodyStyle,    \* document.body.style: userSelect, cursor
    localStorage, \* localStorage.getItem('tasks'): a JSON text, <<>> when absent
    last,         \* the last event handled (history, read by the properties only)
    fnArgs,       \* argument of the pure function under check
    fnResult,     \* its result
    fnPhase       \* "idle" | "in" | "out"

vars == <<state, gridMonth, bars, listeners, bodyStyle, localStorage, last,
          fnArgs, fnResult, fnPhase>>

uiVars == <<gridMonth, bars, listeners, bodyStyle>>
fnVars == <<fnArgs, fnResult, fnPhase>>

-----------------------------------------------------------------------------
(* Generic helpers *)

Min(a, b) == IF a <= b THEN a ELSE b
Max(a, b) == IF a >= b THEN a ELSE b

Range(s) == {s[i] : i \in DOMAIN s}

RECURSIVE SeqConcatAll(_)
SeqConcatAll(ss) ==
    IF ss = <<>> THEN <<>> ELSE Head(ss) \o SeqConcatAll(Tail(ss))

-----------------------------------------------------------------------------
(* date-fns on civil dates *)

\* the value of an absent optional field (selection.start?, modal.draftRange?, ...)
Undefined == 0

IsLeapYear(y) == (y % 4 = 0 /\ y % 100 # 0) \/ y % 400 = 0

DaysInMonth(y, m) ==
    IF m = 2 THEN (IF IsLeapYear(y) THEN 29 ELSE 28)
    ELSE IF m \in {4, 6, 9, 11} THEN 30 ELSE 31

\* days since 1970-01-01 of the civil date y-m-d (proleptic Gregorian)
DaysFromCivil(y, m, d) ==
    LET yy  == IF m <= 2 THEN y - 1 ELSE y
        era == yy \div 400
        yoe == yy - era * 400
        mp  == IF m > 2 THEN m - 3 ELSE m + 9
        doy == (153 * mp + 2) \div 5 + d - 1
        doe == yoe * 365 + yoe \div 4 - yoe \div 100 + doy
    IN  era * 146097 + doe - 719468

\* the civil date <<y, m, d>> of a day number
CivilFromMp(yoe, era, doy, mp) ==
    << yoe + era * 400 + (IF mp < 10 THEN 0 ELSE 1),
       IF mp < 10 THEN mp + 3 ELSE mp - 9,
       doy - (153 * mp + 2) \div 5 + 1 >>

CivilFromDoy(yoe, era, doy) == CivilFromMp(yoe, era, doy, (5 * doy + 2) \div 153)

CivilFromYoe(doe, era, yoe) ==
    CivilFromDoy(yoe, era, doe - (365 * yoe + yoe \div 4 - yoe \div 100))

CivilFromDoe(era, doe) ==
    CivilFromYoe(doe, era, (doe - doe \div 1460 + doe \div 36524 - doe \div 146096) \div 365)

CivilFromEra(zz, era) == CivilFromDoe(era, zz - era * 146097)

CivilFromDays(z) == CivilFromEra(z + 719468, (z + 719468) \div 146097)

\* parseISO("YYYY-MM-DD"): the Date at local midnight of that day
parseISO(iso) ==
    2 * DaysFromCivil(iso \div 10000, (iso \div 100) % 100, iso % 100)

\* format(date, 'yyyy-MM-dd')
format(date) ==
    LET c == CivilFromDays(date \div 2)
    IN  c[1] * 10000 + c[2] * 100 + c[3]

startOfDay(date) == 2 * (date \div 2)
endOfDay(date) == 2 * (date \div 2) + 1

\* addDays keeps the time of day
addDays(date, n) == date + 2 * n

\* differenceInDays counting both end days
differenceInDaysInclusive(dateLeft, dateRight) ==
    (dateLeft - dateRight) \div 2 + 1

\* differenceInDays of two Dates: full days between them, truncated towards zero
differenceInDays(dateLeft, dateRight) ==
    LET diff == dateLeft - dateRight
    IN  IF diff >= 0 THEN diff \div 2 ELSE -((-diff) \div 2)

\* Date.prototype.getDay: 0 = Sunday (1970-01-01 was a Thursday)
getDay(date) == ((date \div 2) + 4) % 7

getDate(date) == CivilFromDays(date \div 2)[3]

startOfMonth(date) ==
    LET c == CivilFromDays(date \div 2)
    IN  2 * DaysFromCivil(c[1], c[2], 1)

endOfMonth(date) ==
    LET c == CivilFromDays(date \div 2)
    IN  2 * DaysFromCivil(c[1], c[2], DaysInMonth(c[1], c[2])) + 1

\* startOfWeek taking Monday as the first day of the week, whatever it is told
startOfWeekMonday(date, weekStartsOn) ==
    LET day  == getDay(date)
        diff == (IF day < 1 THEN 7 ELSE 0) + day - 1
    IN  startOfDay(date) - 2 * diff

startOfWeek(date, weekStartsOn) ==
    LET day  == getDay(date)
        diff == (IF day < weekStartsOn THEN 7 ELSE 0) + day - weekStartsOn
    IN  startOfDay(date) - 2 * diff

\* endOfWeek stopping at the end of the day it is given
endOfWeekSameDay(date, weekStartsOn) == endOfDay(date)

endOfWeek(date, weekStartsOn) ==
    LET day  == getDay(date)
        diff == (IF day < weekStartsOn THEN -7 ELSE 0) + 6 - (day - weekStartsOn)
    IN  endOfDay(date) + 2 * diff

\* addMonths keeps the day of month, clamped to the target month's length,
\* and the time of day
addMonths(date, n) ==
    LET c   == CivilFromDays(date \div 2)
        mi  == (c[1] * 12 + (c[2] - 1)) + n
        y   == mi \div 12
        m   == (mi % 12) + 1
        d   == Min(c[3], DaysInMonth(y, m))
    IN  2 * DaysFromCivil(y, m, d) + (date % 2)

subMonths(date, n) == addMonths(date, -n)

\* eachDayOfInterval: the midnights from the start's day while <= end
eachDayOfInterval(start, end) ==
    LET first == startOfDay(start)
        n     == IF end < first THEN 0 ELSE (end - first) \div 2 + 1
    IN  [i \in 1..n |-> first + 2 * (i - 1)]

-----------------------------------------------------------------------------
(* lib/dates.ts *)

WEEK_START_DAY == 0

\* isToday(date) against the clock's civil day
isToday(date, now) == startOfDay(date) = startOfDay(now)

\* CalendarDay with the month's first day left out of the current month
CalendarDayAfterFirst(date, monthStart, monthEnd, now) ==
    [ date           |-> date,
      isCurrentMonth |-> date > monthStart /\ date <= monthEnd,
      isoDate        |-> format(date),
      dayNumber      |-> getDate(date),
      isToday        |-> isToday(date, now) ]

CalendarDay(date, monthStart, monthEnd, now) ==
    [ date           |-> date,
      isCurrentMonth |-> date >= monthStart /\ date <= monthEnd,
      isoDate        |-> format(date),
      dayNumber      |-> getDate(date),
      isToday        |-> isToday(date, now) ]

generateMonthGrid(month, now) ==
    LET monthStart    == startOfMonth(month)
        monthEnd      == endOfMonth(month)
        calendarStart == startOfWeek(monthStart, WEEK_START_DAY)
        calendarEnd   == endOfWeek(monthEnd, WEEK_START_DAY)
        allDays       == eachDayOfInterval(calendarStart, calendarEnd)
        \* a week is pushed after every 7th day; a trailing partial week is dropped
        nWeeks        == Len(allDays) \div 7
        week(w)       == [i \in 1..7 |->
                            CalendarDay(allDays[7 * (w - 1) + i], monthStart, monthEnd, now)]
    IN  [w \in 1..nWeeks |->
            [ days      |-> week(w),
              startDate |-> week(w)[1].date,
              endDate   |-> week(w)[7].date ]]

\* normalizeDateRange without the swap
normalizeDateRangeNoSwap(start, end) == [start |-> start, end |-> end]

\* normalizeDateRange swapping whatever the order
normalizeDateRangeSwapAlways(start, end) == [start |-> end, end |-> start]

normalizeDateRange(start, end) ==
    IF parseISO(start) <= parseISO(end)
    THEN [start |-> start, end |-> end]
    ELSE [start |-> end, end |-> start]

dayCountInclusive(start, end) ==
    differenceInDays(parseISO(end), parseISO(start)) + 1

\* dateRangesOverlap on open intervals: touching end points do not overlap
dateRangesOverlapOpen(range1, range2) ==
    /\ parseISO(range1.start) < parseISO(range2.end)
    /\ parseISO(range2.start) < parseISO(range1.end)

dateRangesOverlap(range1, range2) ==
    /\ parseISO(range1.start) <= parseISO(range2.end)
    /\ parseISO(range2.start) <= parseISO(range1.end)

\* getTimeRangeFilter counting days for weeks
getTimeRangeFilterDays(now, weeks) ==
    [start |-> format(now), end |-> format(addDays(now, weeks))]

getTimeRangeFilter(now, weeks) ==
    [start |-> format(now), end |-> format(addDays(now, weeks * 7))]

-----------------------------------------------------------------------------
(* lib/taskSegments.ts *)

\* isBefore off by one: equal dates pass as before
isBeforeOrEqual(a, b) == a <= b

isBefore(a, b) == a < b

\* isAfter off by one: equal dates pass as after
isAfterOrEqual(a, b) == a >= b

isAfter(a, b) == a > b

\* the body of the weekRows.forEach callback of calculateTaskSegments: the
\* segments (none or one) that one week row contributes
SegmentInWeek(task, weekRow) ==
    LET taskStart == parseISO(task.start)
        taskEnd   == parseISO(task.end)
        weekStart == startOfDay(weekRow.startDate)
        weekEnd   == startOfDay(weekRow.endDate)
        segmentStartDate == IF isBefore(taskStart, weekStart) THEN weekStart ELSE taskStart
        segmentEndDate   == IF isAfter(taskEnd, weekEnd) THEN weekEnd ELSE taskEnd
        startHits   == {i \in 1..Len(weekRow.days) : weekRow.days[i].date = segmentStartDate}
        endHits     == {i \in 1..Len(weekRow.days) : weekRow.days[i].date = segmentEndDate}
        startColumn == IF startHits = {} THEN -1
                       ELSE (CHOOSE i \in startHits : \A j \in startHits : i <= j) - 1
        endColumn   == IF endHits = {} THEN -1
                       ELSE (CHOOSE i \in endHits : \A j \in endHits : i <= j) - 1
    IN  IF isAfter(taskStart, weekEnd) \/ isBefore(taskEnd, weekStart) THEN <<>>
        ELSE IF startColumn = -1 \/ endColumn = -1 THEN <<>>
        ELSE << [ task           |-> task,
                  startDate      |-> format(segmentStartDate),
                  endDate        |-> format(segmentEndDate),
                  startColumn    |-> startColumn,
                  widthInColumns |-> endColumn - startColumn + 1,
                  rowIndex       |-> 0 ] >>

\* calculateTaskSegments walking the week rows from the last to the first
calculateTaskSegmentsDescending(task, rows) ==
    SeqConcatAll([w \in 1..Len(rows) |-> SegmentInWeek(task, rows[Len(rows) + 1 - w])])

calculateTaskSegments(task, rows) ==
    SeqConcatAll([w \in 1..Len(rows) |-> SegmentInWeek(task, rows[w])])

calculateAllTaskSegments(taskList, rows) ==
    SeqConcatAll([t \in 1..Len(taskList) |-> calculateTaskSegments(taskList[t], rows)])

\* segmentsOverlap with the end column taken as exclusive: segments that share
\* only one column pass as disjoint
segmentsOverlapExclusive(seg1, seg2) ==
    LET seg1EndCol == seg1.startColumn + seg1.widthInColumns - 1
        seg2EndCol == seg2.startColumn + seg2.widthInColumns - 1
    IN  ~(seg1EndCol <= seg2.startColumn \/ seg2EndCol <= seg1.startColumn)

\* segmentsOverlap taking segments of different rowIndex as disjoint
segmentsOverlapSameRow(seg1, seg2) ==
    LET seg1EndCol == seg1.startColumn + seg1.widthInColumns - 1
        seg2EndCol == seg2.startColumn + seg2.widthInColumns - 1
    IN  /\ seg1.rowIndex = seg2.rowIndex
        /\ ~(seg1EndCol < seg2.startColumn \/ seg2EndCol < seg1.startColumn)

segmentsOverlap(seg1, seg2) ==
    LET seg1EndCol == seg1.startColumn + seg1.widthInColumns - 1
        seg2EndCol == seg2.startColumn + seg2.widthInColumns - 1
    IN  ~(seg1EndCol < seg2.startColumn \/ seg2EndCol < seg1.startColumn)

\* no sort at all: the segments are placed in their input order
SortedByInputOrder(segments) == [k \in 1..Len(segments) |-> k]

\* a sort by startColumn that is not stable: segments of equal startColumn come
\* out in the reverse of their input order
SortedByStartColumnUnstable(segments) ==
    LET n == Len(segments)
        before(j, i) == \/ segments[j].startColumn < segments[i].startColumn
                        \/ /\ segments[j].startColumn = segments[i].startColumn
                           /\ j > i
    IN  [k \in 1..n |->
            CHOOSE i \in 1..n : Cardinality({j \in 1..n : before(j, i)}) = k - 1]

\* [...segments].sort((a, b) => a.startColumn - b.startColumn), as the sequence
\* of positions in `segments`; Array.prototype.sort is stable
SortedByStartColumn(segments) ==
    LET n == Len(segments)
        before(j, i) == \/ segments[j].startColumn < segments[i].startColumn
                        \/ /\ segments[j].startColumn = segments[i].startColumn
                           /\ j < i
    IN  [k \in 1..n |->
            CHOOSE i \in 1..n : Cardinality({j \in 1..n : before(j, i)}) = k - 1]

\* the while loop of calculateRowIndices: the first row, from rowIndex upwards,
\* that holds no segment overlapping `segment`; Len(rows) when there is none
\* (a new row is then created). Row indices are zero-based.
RECURSIVE FirstFreeRow(_, _, _)
FirstFreeRow(segment, rows, rowIndex) ==
    IF rowIndex >= Len(rows) THEN rowIndex
    ELSE IF ~(\E e \in Range(rows[rowIndex + 1]) : segmentsOverlap(segment, e))
         THEN rowIndex
         ELSE FirstFreeRow(segment, rows, rowIndex + 1)

\* the sorted.forEach of calculateRowIndices from position k on: `rows` are the
\* rows filled so far, `assigned` maps a position of `segments` to its rowIndex
RECURSIVE PlaceSegments(_, _, _, _, _)
PlaceSegments(segments, order, k, rows, assigned) ==
    IF k > Len(order) THEN assigned
    ELSE LET i        == order[k]
             segment  == segments[i]
             rowIndex == FirstFreeRow(segment, rows, 0)
             rows1    == IF rowIndex >= Len(rows) THEN Append(rows, <<>>) ELSE rows
             rows2    == [rows1 EXCEPT ![rowIndex + 1] = Append(@, segment)]
         IN  PlaceSegments(segments, order, k + 1, rows2,
                           [assigned EXCEPT ![i] = rowIndex])

\* returns the input array, in its own order, each element's rowIndex set
calculateRowIndices(segments) ==
    LET assigned == PlaceSegments(segments, SortedByStartColumn(segments), 1, <<>>,
                                  [i \in 1..Len(segments) |-> segments[i].rowIndex])
    IN  [i \in 1..Len(segments) |-> [segments[i] EXCEPT !.rowIndex = assigned[i]]]

\* the filter of groupSegmentsByWeek for one week row
SegmentsOfWeek(segments, weekRow) ==
    LET inWeek(segment) ==
            LET segmentStart == parseISO(segment.startDate)
                weekStart    == startOfDay(weekRow.startDate)
                weekEnd      == startOfDay(weekRow.endDate)
            IN  segmentStart >= weekStart /\ segmentStart <= weekEnd
    IN  SelectSeq(segments, inWeek)

\* groupSegmentsByWeek stacking the segments of all weeks together before it
\* groups them
groupSegmentsByWeekStackedTogether(segments, rows) ==
    LET present == {w \in 0..(Len(rows) - 1) : SegmentsOfWeek(segments, rows[w + 1]) # <<>>}
    IN  [w \in present |-> SegmentsOfWeek(calculateRowIndices(segments), rows[w + 1])]

\* the Map weekIndex -> segments with row indices; weekIndex is zero-based and
\* a week without segments has no entry
groupSegmentsByWeek(segments, rows) ==
    LET present == {w \in 0..(Len(rows) - 1) : SegmentsOfWeek(segments, rows[w + 1]) # <<>>}
    IN  [w \in present |-> calculateRowIndices(SegmentsOfWeek(segments, rows[w + 1]))]

-----------------------------------------------------------------------------
(* Strings: a string is the sequence of its characters *)

IsWhitespace(ch) == ch = " "

RECURSIVE TrimStart(_)
TrimStart(str) ==
    IF str # <<>> /\ IsWhitespace(Head(str)) THEN TrimStart(Tail(str)) ELSE str

RECURSIVE TrimEnd(_)
TrimEnd(str) ==
    IF str # <<>> /\ IsWhitespace(str[Len(str)])
    THEN TrimEnd(SubSeq(str, 1, Len(str) - 1)) ELSE str

\* String.prototype.trim
trim(str) == TrimEnd(TrimStart(str))

LowerChar(ch) ==
    CASE ch = "A" -> "a"
      [] ch = "B" -> "b"
      [] OTHER    -> ch

\* String.prototype.toLowerCase
toLowerCase(str) == [i \in 1..Len(str) |-> LowerChar(str[i])]

\* String.prototype.includes
includes(str, sub) ==
    \E k \in 0..(Len(str) - Len(sub)) : SubSeq(str, k + 1, k + Len(sub)) = sub

-----------------------------------------------------------------------------
(* JSON.stringify and JSON.parse of a Task[]: a JSON text is the sequence of
   its characters.  The fields of a Task are strings; the model's ids, dates
   and categories are written out as the characters of those strings. *)

Quote == "\""
Backslash == "\\"

DigitChars == <<"0", "1", "2", "3", "4", "5", "6", "7", "8", "9">>

RECURSIVE DigitsOf(_)
DigitsOf(n) ==
    IF n < 10 THEN <<DigitChars[n + 1]>>
    ELSE DigitsOf(n \div 10) \o <<DigitChars[(n % 10) + 1]>>

PadDigits(n, width) ==
    [i \in 1..width |-> DigitChars[((n \div (10 ^ (width - i))) % 10) + 1]]

DigitValue(ch) == (CHOOSE d \in 1..10 : DigitChars[d] = ch) - 1

RECURSIVE NumberOf(_)
NumberOf(chars) ==
    IF chars = <<>> THEN 0
    ELSE NumberOf(SubSeq(chars, 1, Len(chars) - 1)) * 10 + DigitValue(chars[Len(chars)])

\* the characters of the ISO string "YYYY-MM-DD", and back
IsoChars(iso) ==
    PadDigits(iso \div 10000, 4) \o <<"-">> \o PadDigits((iso \div 100) % 100, 2)
        \o <<"-">> \o PadDigits(iso % 100, 2)

IsoOf(chars) ==
    NumberOf(SubSeq(chars, 1, 4)) * 10000 + NumberOf(SubSeq(chars, 6, 7)) * 100
        + NumberOf(SubSeq(chars, 9, 10))

\* the characters of the id `task-${...}`, and back
IdChars(id) == <<"t", "a", "s", "k", "-">> \o DigitsOf(id)

IdOf(chars) == NumberOf(SubSeq(chars, 6, Len(chars)))

\* type Category
Categories == {"To Do", "In Progress", "Review", "Completed"}

CategoryChars(category) ==
    CASE category = "To Do"       -> <<"T", "o", " ", "D", "o">>
      [] category = "In Progress" -> <<"I", "n", " ", "P", "r", "o", "g", "r", "e", "s", "s">>
      [] category = "Review"      -> <<"R", "e", "v", "i", "e", "w">>
      [] category = "Completed"   -> <<"C", "o", "m", "p", "l", "e", "t", "e", "d">>

CategoryOf(chars) == CHOOSE category \in Categories : CategoryChars(category) = chars

\* the property names of a Task
KeyId == <<"i", "d">>
KeyName == <<"n", "a", "m", "e">>
KeyCategory == <<"c", "a", "t", "e", "g", "o", "r", "y">>
KeyStart == <<"s", "t", "a", "r", "t">>
KeyEnd == <<"e", "n", "d">>

\* a string written without escaping
JsonEscapeNone(chars) == chars

\* JSON.stringify escapes the quote and the backslash inside a string
RECURSIVE JsonEscape(_)
JsonEscape(chars) ==
    IF chars = <<>> THEN <<>>
    ELSE (IF Head(chars) \in {Quote, Backslash}
          THEN <<Backslash, Head(chars)>> ELSE <<Head(chars)>>) \o JsonEscape(Tail(chars))

JsonString(chars) == <<Quote>> \o JsonEscape(chars) \o <<Quote>>

JsonMember(key, chars) == JsonString(key) \o <<":">> \o JsonString(chars)

JsonTask(task) ==
    <<"{">> \o JsonMember(KeyId, IdChars(task.id))
        \o <<",">> \o JsonMember(KeyName, task.name)
        \o <<",">> \o JsonMember(KeyCategory, CategoryChars(task.category))
        \o <<",">> \o JsonMember(KeyStart, IsoChars(task.start))
        \o <<",">> \o JsonMember(KeyEnd, IsoChars(task.end))
        \o <<"}">>

RECURSIVE JsonElements(_)
JsonElements(taskList) ==
    IF taskList = <<>> THEN <<>>
    ELSE IF Len(taskList) = 1 THEN JsonTask(Head(taskList))
    ELSE JsonTask(Head(taskList)) \o <<",">> \o JsonElements(Tail(taskList))

\* JSON.stringify(tasks)
JSONstringify(taskList) == <<"[">> \o JsonElements(taskList) \o <<"]">>

\* the result of a parsing step: the value read and the position after it
ParseFail == [ok |-> FALSE, value |-> <<>>, next |-> 0]

ParseOk(value, next) == [ok |-> TRUE, value |-> value, next |-> next]

\* the rest of a string literal from position p, `acc` the characters so far
RECURSIVE ScanString(_, _, _)
ScanString(text, p, acc) ==
    IF p > Len(text) THEN ParseFail
    ELSE IF text[p] = Quote THEN ParseOk(acc, p + 1)
    ELSE IF text[p] = Backslash
         THEN IF p + 1 <= Len(text) /\ text[p + 1] \in {Quote, Backslash}
              THEN ScanString(text, p + 2, Append(acc, text[p + 1]))
              ELSE ParseFail
    ELSE ScanString(text, p + 1, Append(acc, text[p]))

ReadString(text, p) ==
    IF p <= Len(text) /\ text[p] = Quote THEN ScanString(text, p + 1, <<>>) ELSE ParseFail

\* the members of an object from position p: "key":"value" separated by
\* commas up to the closing brace, as a sequence of <<key, value>>
RECURSIVE ReadMembers(_, _, _)
ReadAfterValue(text, members, key, val) ==
    IF ~val.ok \/ val.next > Len(text) THEN ParseFail
    ELSE IF text[val.next] = ","
         THEN ReadMembers(text, val.next + 1, Append(members, <<key.value, val.value>>))
    ELSE IF text[val.next] = "}"
         THEN ParseOk(Append(members, <<key.value, val.value>>), val.next + 1)
    ELSE ParseFail

ReadAfterKey(text, members, key) ==
    IF ~key.ok \/ key.next > Len(text) \/ text[key.next] # ":" THEN ParseFail
    ELSE ReadAfterValue(text, members, key, ReadString(text, key.next + 1))

ReadMembers(text, p, members) == ReadAfterKey(text, members, ReadString(text, p))

ReadObject(text, p) ==
    IF p <= Len(text) /\ text[p] = "{" THEN ReadMembers(text, p + 1, <<>>) ELSE ParseFail

\* obj[key]: the value of the last member with that name, <<>> if there is none
Member(members, key) ==
    LET hits == {i \in 1..Len(members) : members[i][1] = key}
    IN  IF hits = {} THEN <<>>
        ELSE members[CHOOSE i \in hits : \A j \in hits : j <= i][2]

\* the parsed object seen as a Task
TaskOfMembers(members) ==
    [ id       |-> IdOf(Member(members, KeyId)),
      name     |-> Member(members, KeyName),
      category |-> CategoryOf(Member(members, KeyCategory)),
      start    |-> IsoOf(Member(members, KeyStart)),
      end      |-> IsoOf(Member(members, KeyEnd)) ]

\* the elements of an array from position p: objects separated by commas up
\* to the closing bracket
RECURSIVE ReadElements(_, _, _)
ReadAfterObject(text, taskList, obj) ==
    IF ~obj.ok \/ obj.next > Len(text) THEN ParseFail
    ELSE IF text[obj.next] = ","
         THEN ReadElements(text, obj.next + 1, Append(taskList, TaskOfMembers(obj.value)))
    ELSE IF text[obj.next] = "]"
         THEN ParseOk(Append(taskList, TaskOfMembers(obj.value)), obj.next + 1)
    ELSE ParseFail

ReadElements(text, p, taskList) == ReadAfterObject(text, taskList, ReadObject(text, p))

ParseWhole(text, result) ==
    IF result.ok /\ result.next = Len(text) + 1 THEN result ELSE ParseFail

\* JSON.parse(saved) as Task[]: ok is false where JSON.parse throws
JSONparse(text) ==
    IF Len(text) < 2 \/ text[1] # "[" THEN ParseFail
    ELSE IF text = <<"[", "]">> THEN ParseOk(<<>>, 3)
    ELSE ParseWhole(text, ReadElements(text, 2, <<>>))

-----------------------------------------------------------------------------
(* App.tsx: the store *)

\* the clock: what new Date() returns (an afternoon is as good as any time)
ClockNow == parseISO(20240315) + 1

NoSelection == [start |-> Undefined, end |-> Undefined, isSelecting |-> FALSE]

NoRange == [start |-> Undefined, end |-> Undefined]

ClosedModal == [open |-> FALSE, draftRange |-> NoRange]

NoFilters == [search |-> <<>>, categories |-> <<>>, timeRangeWeeks |-> 0]

initialState ==
    [ tasks        |-> <<>>,
      selection    |-> NoSelection,
      modal        |-> ClosedModal,
      filters      |-> NoFilters,
      currentMonth |-> ClockNow ]

\* `task-${Date.now()}-${Math.random()}`: an id no task of the list has. The
\* list only ever grows by appending, so its length + 1 is fresh.
NewTaskId(st) == Len(st.tasks) + 1

\* tasks.find(t => t.id === taskId): the position of the first match, 0 if none
FindTask(taskList, taskId) ==
    LET hits == {i \in 1..Len(taskList) : taskList[i].id = taskId}
    IN  IF hits = {} THEN 0 ELSE CHOOSE i \in hits : \A j \in hits : i <= j

\* SELECTION_START setting the anchor only
ReduceSelectionStartAnchorOnly(st, action) ==
    [st EXCEPT !.selection =
        [start |-> action.isoDate, end |-> Undefined, isSelecting |-> TRUE]]

ReduceSelectionStart(st, action) ==
    [st EXCEPT !.selection =
        [start |-> action.isoDate, end |-> action.isoDate, isSelecting |-> TRUE]]

\* SELECTION_UPDATE without the isSelecting guard
ReduceSelectionUpdateUnguarded(st, action) ==
    [st EXCEPT !.selection.end = action.isoDate]

ReduceSelectionUpdate(st, action) ==
    IF ~st.selection.isSelecting THEN st
    ELSE [st EXCEPT !.selection.end = action.isoDate]

\* SELECTION_END handing on the selection as dragged, not normalized
ReduceSelectionEndRaw(st) ==
    IF \/ ~st.selection.isSelecting
       \/ st.selection.start = Undefined
       \/ st.selection.end = Undefined
    THEN [st EXCEPT !.selection = NoSelection]
    ELSE [st EXCEPT !.selection = NoSelection,
                    !.modal = [open |-> TRUE,
                               draftRange |-> [start |-> st.selection.start,
                                               end   |-> st.selection.end]]]

\* SELECTION_END leaving the dates of the selection in place
ReduceSelectionEndKeepDates(st) ==
    IF \/ ~st.selection.isSelecting
       \/ st.selection.start = Undefined
       \/ st.selection.end = Undefined
    THEN [st EXCEPT !.selection.isSelecting = FALSE]
    ELSE [st EXCEPT !.selection.isSelecting = FALSE,
                    !.modal = [open |-> TRUE,
                               draftRange |-> normalizeDateRange(st.selection.start,
                                                                 st.selection.end)]]

ReduceSelectionEnd(st) ==
    IF \/ ~st.selection.isSelecting
       \/ st.selection.start = Undefined
       \/ st.selection.end = Undefined
    THEN [st EXCEPT !.selection = NoSelection]
    ELSE [st EXCEPT !.selection = NoSelection,
                    !.modal = [open |-> TRUE,
                               draftRange |-> normalizeDateRange(st.selection.start,
                                                                 st.selection.end)]]

\* MODAL_CLOSE leaving the draft range in the closed modal
ReduceModalCloseKeepDraft(st) ==
    [st EXCEPT !.modal.open = FALSE, !.selection = NoSelection]

ReduceModalClose(st) ==
    [st EXCEPT !.modal = ClosedModal, !.selection = NoSelection]

\* TASK_CREATE putting the new task at the head of the list
ReduceTaskCreatePrepend(st, action) ==
    LET newTask == [ id       |-> NewTaskId(st),
                     name     |-> action.name,
                     category |-> action.category,
                     start    |-> action.start,
                     end      |-> action.end ]
    IN  [st EXCEPT !.tasks = <<newTask>> \o @,
                   !.modal = ClosedModal,
                   !.selection = NoSelection]

ReduceTaskCreate(st, action) ==
    LET newTask == [ id       |-> NewTaskId(st),
                     name     |-> action.name,
                     category |-> action.category,
                     start    |-> action.start,
                     end      |-> action.end ]
    IN  [st EXCEPT !.tasks = Append(@, newTask),
                   !.modal = ClosedModal,
                   !.selection = NoSelection]

ReduceTaskMove(st, action) ==
    LET k == FindTask(st.tasks, action.taskId)
    IN  IF k = 0 THEN st
        ELSE LET taskStart == parseISO(st.tasks[k].start)
                 taskEnd   == parseISO(st.tasks[k].end)
                 duration  == differenceInDays(taskEnd, taskStart)
                 newStart  == parseISO(action.newStartDate)
                 newEnd    == addDays(newStart, duration)
             IN  [st EXCEPT !.tasks =
                    [i \in 1..Len(st.tasks) |->
                        IF st.tasks[i].id = action.taskId
                        THEN [st.tasks[i] EXCEPT !.start = format(newStart),
                                                 !.end = format(newEnd)]
                        ELSE st.tasks[i]]]

\* TASK_RESIZE adding a task of the new range when no task has the id
ReduceTaskResizeOrCreate(st, action) ==
    LET normalized == normalizeDateRange(action.newStart, action.newEnd)
    IN  IF FindTask(st.tasks, action.taskId) = 0
        THEN [st EXCEPT !.tasks =
                Append(@, [ id       |-> action.taskId,
                            name     |-> <<>>,
                            category |-> "To Do",
                            start    |-> normalized.start,
                            end      |-> normalized.end ])]
        ELSE [st EXCEPT !.tasks =
                [i \in 1..Len(st.tasks) |->
                    IF st.tasks[i].id = action.taskId
                    THEN [st.tasks[i] EXCEPT !.start = normalized.start,
                                             !.end = normalized.end]
                    ELSE st.tasks[i]]]

\* TASK_RESIZE giving the new range to every task of the list
ReduceTaskResizeEveryTask(st, action) ==
    LET normalized == normalizeDateRange(action.newStart, action.newEnd)
    IN  [st EXCEPT !.tasks =
            [i \in 1..Len(st.tasks) |->
                [st.tasks[i] EXCEPT !.start = normalized.start,
                                    !.end = normalized.end]]]

ReduceTaskResize(st, action) ==
    LET normalized == normalizeDateRange(action.newStart, action.newEnd)
    IN  [st EXCEPT !.tasks =
            [i \in 1..Len(st.tasks) |->
                IF st.tasks[i].id = action.taskId
                THEN [st.tasks[i] EXCEPT !.start = normalized.start,
                                         !.end = normalized.end]
                ELSE st.tasks[i]]]

appReducer(st, action) ==
    CASE action.type = "SELECTION_START"  -> ReduceSelectionStart(st, action)
      [] action.type = "SELECTION_UPDATE" -> ReduceSelectionUpdate(st, action)
      [] action.type = "SELECTION_END"    -> ReduceSelectionEnd(st)
      [] action.type = "MODAL_CLOSE"      -> ReduceModalClose(st)
      [] action.type = "TASK_CREATE"      -> ReduceTaskCreate(st, action)
      [] action.type = "TASK_MOVE"        -> ReduceTaskMove(st, action)
      [] action.type = "TASK_RESIZE"      -> ReduceTaskResize(st, action)
      [] action.type = "FILTERS_CHANGE"   -> [st EXCEPT !.filters = action.filters]
      [] action.type = "MONTH_CHANGE"     -> [st EXCEPT !.currentMonth = action.month]
      [] OTHER                            -> st

filterTasks(taskList, filters, now) ==
    LET searchLower == toLowerCase(filters.search)
        bySearch(task) == includes(toLowerCase(task.name), searchLower)
        byCategory(task) == task.category \in Range(filters.categories)
        timeRange == getTimeRangeFilter(now, filters.timeRangeWeeks)
        byTime(task) == dateRangesOverlap([start |-> task.start, end |-> task.end],
                                          timeRange)
        filtered1 == IF trim(filters.search) # <<>>
                     THEN SelectSeq(taskList, bySearch) ELSE taskList
        filtered2 == IF Len(filters.categories) > 0
                     THEN SelectSeq(filtered1, byCategory) ELSE filtered1
        filtered3 == IF filters.timeRangeWeeks > 0
                     THEN SelectSeq(filtered2, byTime) ELSE filtered2
    IN  filtered3

\* the callbacks App hands to its children: each dispatches one action
handleSelectionStart(st, isoDate) ==
    appReducer(st, [type |-> "SELECTION_START", isoDate |-> isoDate])

handleSelectionUpdate(st, isoDate) ==
    appReducer(st, [type |-> "SELECTION_UPDATE", isoDate |-> isoDate])

handleSelectionEnd(st) == appReducer(st, [type |-> "SELECTION_END"])

handleModalClose(st) == appReducer(st, [type |-> "MODAL_CLOSE"])

handleTaskCreate(st, name, category) ==
    IF st.modal.draftRange = NoRange THEN st
    ELSE appReducer(st, [ type     |-> "TASK_CREATE",
                          name     |-> name,
                          category |-> category,
                          start    |-> st.modal.draftRange.start,
                          end      |-> st.modal.draftRange.end ])

handleTaskMove(st, taskId, newStartDate) ==
    appReducer(st, [type |-> "TASK_MOVE", taskId |-> taskId,
                    newStartDate |-> newStartDate])

handleTaskResize(st, taskId, newStart, newEnd) ==
    appReducer(st, [type |-> "TASK_RESIZE", taskId |-> taskId,
                    newStart |-> newStart, newEnd |-> newEnd])

handleFiltersChange(st, filters) ==
    appReducer(st, [type |-> "FILTERS_CHANGE", filters |-> filters])

handleMonthChange(st, newMonth) ==
    appReducer(st, [type |-> "MONTH_CHANGE", month |-> newMonth])

\* the lazy initializer of useReducer: the tasks saved in localStorage, if
\* there are any and they parse
LazyInit(saved) ==
    IF saved = <<>> THEN initialState
    ELSE IF JSONparse(saved).ok
         THEN [initialState EXCEPT !.tasks = JSONparse(saved).value]
         ELSE initialState

\* the effect on [state.tasks], as it leaves localStorage after the store
\* went to st: every action that changes the tasks makes a new array
SaveEffect(st) ==
    IF st.tasks = state.tasks THEN localStorage ELSE JSONstringify(st.tasks)

-----------------------------------------------------------------------------
(* CalendarMonth.tsx, DayCell.tsx, TaskBar.tsx: what is rendered *)

\* App passes cellWidth={150}; CalendarMonth's effect replaces it by
\* gridRef.current.offsetWidth / 7, the same 150 for a grid 1050 wide
cellWidth == 150

\* CalendarMonth renders the segments of the filtered tasks, grouped by week
RenderedSegments(st, rows) ==
    groupSegmentsByWeek(calculateAllTaskSegments(filterTasks(st.tasks, st.filters, ClockNow),
                                                 rows),
                        rows)

\* key={`${segment.task.id}-${weekIndex}-${segment.startDate}-${segment.endDate}`}
BarKey(segment, weekIndex) ==
    <<segment.task.id, weekIndex, segment.startDate, segment.endDate>>

\* the keys of the TaskBar components CalendarMonth renders
BarKeys(st, rows) ==
    LET grouped == RenderedSegments(st, rows)
    IN  UNION {{BarKey(grouped[w][i], w) : i \in 1..Len(grouped[w])} : w \in DOMAIN grouped}

\* segment.task of the TaskBar with that key
BarTask(st, key) ==
    LET visible == filterTasks(st.tasks, st.filters, ClockNow)
    IN  visible[FindTask(visible, key[1])]

NoTask == [id |-> 0, name |-> <<>>, category |-> "", start |-> Undefined, end |-> Undefined]

\* a TaskBar as mounted: useState(false), useState(null), useRef(null), and no
\* gesture effect in place
FreshBar ==
    [ isDragging |-> FALSE,
      isResizing |-> "null",
      dragStart  |-> Undefined,      \* dragStartRef.current.date, Undefined for null
      closure    |-> NoTask ]        \* `task` as captured by the registered handlers

BarActive(bar) == bar.isDragging \/ bar.isResizing # "null"

\* the elements matching [data-date] below one week row, in document order:
\* for every day the dayCellWrapper div and, inside it, the DayCell root div
WeekRowDataDates(weekRow) ==
    [i \in 1..(2 * Len(weekRow.days)) |-> weekRow.days[(i + 1) \div 2].isoDate]

\* the ancestors of a task bar below the calendar grid, innermost first, each
\* as its querySelectorAll('[data-date]') result: the taskBarsContainer holds
\* no such element, the week row holds those of its days
BarAncestorDataDates(rows, key) ==
    << <<>>, WeekRowDataDates(rows[key[2] + 1]) >>

\* the first element of a sequence of query results that has exactly 7
\* elements and one at (zero-based) columnIndex; Undefined if there is none
RECURSIVE FirstSevenCellRow(_, _)
FirstSevenCellRow(results, columnIndex) ==
    IF results = <<>> THEN Undefined
    ELSE IF Len(Head(results)) = 7 /\ columnIndex + 1 \in DOMAIN Head(results)
         THEN Head(results)[columnIndex + 1]
         ELSE FirstSevenCellRow(Tail(results), columnIndex)

findDateAtX(rows, key, x) ==
    LET columnIndex == Max(0, Min(6, x \div cellWidth))
        fromParents == FirstSevenCellRow(BarAncestorDataDates(rows, key), columnIndex)
        fallback    == FirstSevenCellRow([w \in 1..Len(rows) |-> WeekRowDataDates(rows[w])],
                                         columnIndex)
    IN  IF fromParents # Undefined THEN fromParents ELSE fallback

\* handleResizeMove: the store actions it dispatches (none or one)
handleResizeMove(rows, key, bar, x) ==
    LET targetDate    == findDateAtX(rows, key, x)
        task          == bar.closure
        taskStart     == parseISO(task.start)
        taskEnd       == parseISO(task.end)
        targetDateObj == parseISO(targetDate)
    IN  IF bar.dragStart = Undefined THEN <<>>
        ELSE IF targetDate = Undefined THEN <<>>
        ELSE IF bar.isResizing = "left"
        THEN IF targetDateObj > taskEnd
             THEN << [type |-> "TASK_RESIZE", taskId |-> task.id,
                      newStart |-> format(taskEnd), newEnd |-> format(taskEnd)] >>
             ELSE << [type |-> "TASK_RESIZE", taskId |-> task.id,
                      newStart |-> targetDate, newEnd |-> format(taskEnd)] >>
        ELSE IF bar.isResizing = "right"
        THEN IF targetDateObj < taskStart
             THEN << [type |-> "TASK_RESIZE", taskId |-> task.id,
                      newStart |-> format(taskStart), newEnd |-> format(taskStart)] >>
             ELSE << [type |-> "TASK_RESIZE", taskId |-> task.id,
                      newStart |-> format(taskStart), newEnd |-> targetDate] >>
        ELSE <<>>

\* handleDragMove taking the date of the column in the bar's week row and
\* dispatching the move whatever the task's start is
handleDragMoveAlways(rows, key, bar, x) ==
    LET columnIndex == Max(0, Min(6, x \div cellWidth))
        newStart    == rows[key[2] + 1].days[columnIndex + 1].isoDate
    IN  << [type |-> "TASK_MOVE", taskId |-> bar.closure.id, newStartDate |-> newStart] >>

\* handleDragMove: the store actions it dispatches (none or one)
handleDragMove(rows, key, bar, x) ==
    LET targetDate == findDateAtX(rows, key, x)
        task       == bar.closure
        newStart   == targetDate
    IN  IF targetDate = Undefined THEN <<>>
        ELSE IF newStart # task.start
        THEN << [type |-> "TASK_MOVE", taskId |-> task.id, newStartDate |-> newStart] >>
        ELSE <<>>

\* the document pointermove listener of one task bar
handlePointerMove(rows, key, bar, x) ==
    IF ~bar.isDragging /\ bar.isResizing = "null" THEN <<>>
    ELSE IF bar.isResizing # "null" THEN handleResizeMove(rows, key, bar, x)
    ELSE IF bar.isDragging THEN handleDragMove(rows, key, bar, x)
    ELSE <<>>

\* handlePointerUp ending a drag only
handlePointerUpDragOnly(bar) ==
    IF bar.isDragging
    THEN [bar EXCEPT !.isDragging = FALSE, !.dragStart = Undefined]
    ELSE bar

\* the document pointerup listener of one task bar
handlePointerUp(bar) ==
    IF bar.isDragging \/ bar.isResizing # "null"
    THEN [bar EXCEPT !.isDragging = FALSE, !.isResizing = "null", !.dragStart = Undefined]
    ELSE bar

\* onPointerDown of the bar; a press on a resize handle never reaches it
\* (the handle's handler stops propagation) and would return early
handleBarPointerDown(bar, task, targetIsResizeHandle) ==
    IF targetIsResizeHandle THEN bar
    ELSE [bar EXCEPT !.isDragging = TRUE, !.dragStart = task.start]

\* onPointerDown of a resize handle
handleResizePointerDown(bar, task, side) ==
    [bar EXCEPT !.isResizing = side,
                !.dragStart = IF side = "left" THEN task.start ELSE task.end]

-----------------------------------------------------------------------------
(* The effects: who holds document listeners and the body styles *)

NoOverride == [userSelect |-> "", cursor |-> ""]
Grabbing == [userSelect |-> "none", cursor |-> "grabbing"]

\* CalendarMonth's effect registers its pointerup listener on every run and
\* removes it in the cleanup, whatever selection.isSelecting is
\* (a listener is <<event type, owning component>>; the owner is a task bar's
\* key, and CalendarMonthOwner for the CalendarMonth component)
CalendarMonthOwner == <<0, 0, 0, 0>>

CalendarMonthListeners == {<<"pointerup", CalendarMonthOwner>>}

\* the listeners the gesture effect of one task bar adds and its cleanup removes
BarListeners(key) == {<<"pointermove", key>>, <<"pointerup", key>>}

\* the effect's dependencies [isDragging, isResizing, cellWidth] differ
DepsChanged(oldBar, newBar) ==
    oldBar.isDragging # newBar.isDragging \/ oldBar.isResizing # newBar.isResizing

\* the cleanup skipped when the bar unmounts
EffectCleanupRunsMounted(oldBar, newBar, stillMounted) ==
    BarActive(oldBar) /\ stillMounted /\ DepsChanged(oldBar, newBar)

\* the cleanup returned by the last run of the gesture effect runs: there is
\* one only if that run saw isDragging || isResizing; it runs when the bar
\* unmounts or before the effect runs again
EffectCleanupRuns(oldBar, newBar, stillMounted) ==
    BarActive(oldBar) /\ (~stillMounted \/ DepsChanged(oldBar, newBar))

\* the gesture effect runs again and registers: if (isDragging || isResizing)
EffectSetupRuns(oldBar, newBar, stillMounted) ==
    stillMounted /\ DepsChanged(oldBar, newBar) /\ BarActive(newBar)

\* React commits a render: the bars whose key is no longer rendered unmount,
\* new keys mount fresh, the others keep their state; then all cleanups run,
\* then all effects.  `keys` are the keys of the rendered bars, `local` is the
\* bars' state after the event's handlers, `body` the body style they left.
Commit(st, keys, local, body) ==
    LET cleanup == {k \in DOMAIN bars : EffectCleanupRuns(bars[k], local[k], k \in keys)}
        setup   == {k \in DOMAIN bars : EffectSetupRuns(bars[k], local[k], k \in keys)}
    IN  [ bars |->
            [k \in keys |->
                IF k \notin DOMAIN bars THEN FreshBar
                ELSE IF k \in setup THEN [local[k] EXCEPT !.closure = BarTask(st, k)]
                ELSE IF k \in cleanup THEN [local[k] EXCEPT !.closure = NoTask]
                ELSE local[k]],
          listeners |->
            ((listeners \ UNION {BarListeners(k) : k \in cleanup})
                \cup UNION {BarListeners(k) : k \in setup})
                \cup CalendarMonthListeners,
          bodyStyle |->
            IF setup # {} THEN Grabbing
            ELSE IF cleanup # {} THEN NoOverride
            ELSE body ]

-----------------------------------------------------------------------------
(* Bounds of the model *)

\* tasks that may be created
MaxTasks == 1

\* the day cells the pointer visits: this many consecutive days from Saturday
\* 2024-03-30, the last day of a week row
NumDates == 2

\* the months the calendar may be navigated to, counted from the clock's month
MaxMonthOffset == 1

PointerIsoDates == {format(addDays(parseISO(20240330), i)) : i \in 0..(NumDates - 1)}

\* clientX - gridRect.left of a pointermove
PointerXs == {-1, 150, 1050}

\* the week row (zero-based) a pointermove is over: in the grid of March 2024
\* the rows of 2024-03-30 and of 2024-03-31
PointerRows == {4, 5}

\* what is typed into the task modal
NameInputs == {<<"a">>, <<" ", "a">>, <<" ">>, <<>>}
CategoryInputs == {"To Do", "Review"}

\* the category checkboxes toggled in the filter panel
ToggleCategories == {"Review"}

\* the months the calendar is navigated to
WindowMonths == {addMonths(ClockNow, k) : k \in 0..MaxMonthOffset}

\* generateMonthGrid(month) for each of them, built once
MonthGrids == [month \in WindowMonths |-> generateMonthGrid(month, ClockNow)]

\* CalendarMonth's state weekRows: setWeekRows(generateMonthGrid(month)) as
\* the effect on [month] last ran it
weekRows == MonthGrids[gridMonth]

\* the dates of the day cells on screen
VisibleIsoDates(rows) ==
    UNION {{rows[w].days[i].isoDate : i \in 1..Len(rows[w].days)} : w \in 1..Len(rows)}

-----------------------------------------------------------------------------
(* The user interface as a state machine: one action per event *)

Event(type, d1, d2, n) == [type |-> type, d1 |-> d1, d2 |-> d2, n |-> n]

ActiveBars == {k \in DOMAIN bars : BarActive(bars[k])}

DraggingBars == {k \in DOMAIN bars : bars[k].isDragging}

ResizingBars == {k \in DOMAIN bars : bars[k].isResizing # "null"}

\* the interaction modes active at once
ModesActive ==
    (IF state.selection.isSelecting THEN 1 ELSE 0)
        + Cardinality(DraggingBars) + Cardinality(ResizingBars)

\* the keys CalendarMonth renders for a new store state: rendering is a pure
\* function of the tasks, the filters and the grid, so when none of them
\* changed the keys are those of the bars already mounted
MemoBarKeys(st, month) ==
    IF st.tasks = state.tasks /\ st.filters = state.filters /\ month = gridMonth
    THEN DOMAIN bars
    ELSE BarKeys(st, MonthGrids[month])

\* the state after an event: the store's new state, the month of the grid, the
\* bars as the handlers left them, rendered and committed
UIStep(st, month, local, body, event) ==
    \E s \in {st}, l \in {local} :
        \E keys \in {MemoBarKeys(s, month)} :
            \E c \in {Commit(s, keys, l, body)} :
                /\ state' = s
                /\ gridMonth' = month
                /\ bars' = c.bars
                /\ listeners' = c.listeners
                /\ bodyStyle' = c.bodyStyle
                /\ localStorage' = SaveEffect(s)
                /\ last' = event
                /\ UNCHANGED fnVars

Init ==
    /\ state = initialState
    /\ gridMonth = initialState.currentMonth
    /\ bars = [k \in {} |-> FreshBar]
    /\ listeners = CalendarMonthListeners
    /\ bodyStyle = NoOverride
    /\ localStorage = JSONstringify(initialState.tasks)
    /\ last = Event("mount", Undefined, Undefined, 0)
    /\ fnArgs = 0
    /\ fnResult = 0
    /\ fnPhase = "idle"

\* DayCell.handlePointerDown (the event records the date of the cell and the
\* number of modes active before it)
CellPointerDown(isoDate) ==
    /\ isoDate \in VisibleIsoDates(weekRows)
    /\ UIStep(handleSelectionStart(state, isoDate), gridMonth, bars, bodyStyle,
              Event("cellDown", isoDate, Undefined, ModesActive))

\* DayCell.handlePointerEnter (the event records the date of the cell and
\* e.buttons)
CellPointerEnter(isoDate, buttons) ==
    /\ isoDate \in VisibleIsoDates(weekRows)
    /\ UIStep(IF buttons = 1 THEN handleSelectionUpdate(state, isoDate) ELSE state,
              gridMonth, bars, bodyStyle,
              Event("cellEnter", isoDate, Undefined, buttons))

\* CalendarMonth.handleGlobalPointerUp
handleGlobalPointerUp(st) ==
    IF st.selection.isSelecting THEN handleSelectionEnd(st) ELSE st

\* a pointerup anywhere: every pointerup listener on document runs
DocPointerUp ==
    LET st    == IF <<"pointerup", CalendarMonthOwner>> \in listeners
                 THEN handleGlobalPointerUp(state) ELSE state
        heard == {k \in DOMAIN bars : <<"pointerup", k>> \in listeners}
        local == [k \in DOMAIN bars |->
                    IF k \in heard THEN handlePointerUp(bars[k]) ELSE bars[k]]
        body  == IF \E k \in heard : BarActive(bars[k]) THEN NoOverride ELSE bodyStyle
    IN  UIStep(st, gridMonth, local, body,
               Event("pointerUp", state.selection.start, state.selection.end,
                     Cardinality(ActiveBars)))

\* a pointerdown on a task bar, outside its resize handles
BarPointerDown(key) ==
    /\ key \in DOMAIN bars
    /\ UIStep(state, gridMonth,
              [bars EXCEPT ![key] = handleBarPointerDown(@, BarTask(state, key), FALSE)],
              bodyStyle,
              Event("barDown", Undefined, Undefined, 0))

\* a pointerdown on a resize handle of a task bar
ResizePointerDown(key, side) ==
    /\ key \in DOMAIN bars
    /\ UIStep(state, gridMonth,
              [bars EXCEPT ![key] = handleResizePointerDown(@, BarTask(state, key), side)],
              bodyStyle,
              Event("resizeDown", Undefined, Undefined, 0))

KeyBefore(a, b) == a[1] < b[1] \/ (a[1] = b[1] /\ a[2] < b[2])

\* the store actions the pointermove listeners on document dispatch for one
\* event, bar after bar
MoveDispatches(x) ==
    LET heard == {k \in DOMAIN bars : <<"pointermove", k>> \in listeners}
        order == [i \in 1..Cardinality(heard) |->
                    CHOOSE k \in heard :
                        Cardinality({j \in heard : KeyBefore(j, k)}) = i - 1]
    IN  SeqConcatAll([i \in 1..Cardinality(heard) |->
                        handlePointerMove(weekRows, order[i], bars[order[i]], x)])

RECURSIVE DispatchAll(_, _)
DispatchAll(st, actions) ==
    IF actions = <<>> THEN st
    ELSE DispatchAll(appReducer(st, Head(actions)), Tail(actions))

\* a pointermove anywhere, at horizontal offset x from the grid's left edge and
\* over week row `row` (zero-based): the handlers read e.clientX only (the
\* event records x and whether the event before was a pointermove at that x)
DocPointerMove(x, row) ==
    UIStep(DispatchAll(state, MoveDispatches(x)), gridMonth, bars, bodyStyle,
           [ type |-> "pointerMove", d1 |-> Undefined, d2 |-> Undefined, n |-> x,
             again |-> last.type = "pointerMove" /\ last.n = x ])

\* handleSubmit taking the name as typed: any character makes it valid and
\* the task gets it untrimmed
handleSubmitUntrimmed(st, name, category) ==
    IF name # <<>>
    THEN handleModalClose(handleTaskCreate(st, name, category))
    ELSE st

\* TaskModal.handleSubmit: the store after onSubmit and onClose
handleSubmit(st, name, category) ==
    IF trim(name) # <<>>
    THEN handleModalClose(handleTaskCreate(st, trim(name), category))
    ELSE st

\* the form is submitted, or Ctrl+Enter pressed, with that name typed and that
\* category chosen (the event records both)
ModalSubmit(name, category) ==
    /\ state.modal.open
    /\ Len(state.tasks) < MaxTasks
    /\ UIStep(handleSubmit(state, name, category), gridMonth, bars, bodyStyle,
              [ type |-> "submit", d1 |-> Undefined, d2 |-> Undefined, n |-> 0,
                name |-> name, category |-> category ])

\* Cancel, Escape or a click on the backdrop
ModalCancel ==
    /\ state.modal.open
    /\ UIStep(handleModalClose(state), gridMonth, bars, bodyStyle,
              Event("cancel", Undefined, Undefined, 0))

\* the arrow keys / buttons and Today; the effect on [month] rebuilds weekRows
MonthNav(newMonth) ==
    /\ newMonth \in WindowMonths
    /\ UIStep(handleMonthChange(state, newMonth), newMonth, bars, bodyStyle,
              Event("month", Undefined, Undefined, 0))

\* FiltersPanel.handleCategoryToggle
handleCategoryToggle(filters, category) ==
    LET keep(c) == c # category
    IN  [filters EXCEPT !.categories =
            IF category \in Range(filters.categories)
            THEN SelectSeq(filters.categories, keep)
            ELSE Append(filters.categories, category)]

CategoryToggle(category) ==
    UIStep(handleFiltersChange(state, handleCategoryToggle(state.filters, category)),
           gridMonth, bars, bodyStyle,
           Event("filters", Undefined, Undefined, 0))

Next ==
    \/ \E d \in PointerIsoDates : CellPointerDown(d)
    \/ \E d \in PointerIsoDates, b \in {0, 1} : CellPointerEnter(d, b)
    \/ DocPointerUp
    \/ \E k \in DOMAIN bars : BarPointerDown(k)
    \/ \E k \in DOMAIN bars, side \in {"left", "right"} : ResizePointerDown(k, side)
    \/ \E x \in PointerXs, row \in PointerRows : DocPointerMove(x, row)
    \/ \E name \in NameInputs, c \in CategoryInputs : ModalSubmit(name, c)
    \/ ModalCancel
    \/ \E m \in {subMonths(state.currentMonth, 1), addMonths(state.currentMonth, 1),
                 ClockNow} : MonthNav(m)
    \/ \E c \in ToggleCategories : CategoryToggle(c)

Spec == Init /\ [][Next]_vars

-----------------------------------------------------------------------------
(* The store alone: the callbacks of App called in any order with any
   arguments, the component tree left out *)

\* the dates handed to the callbacks: this many consecutive days from
\* 2024-02-28 (a leap day and a month boundary lie among them)
NumStoreDates == 3

StoreIsoDates == {format(addDays(parseISO(20240228), i)) : i \in 0..(NumStoreDates - 1)}

\* the task ids handed to the callbacks: those of the tasks that may exist and
\* one that never does
StoreTaskIds == 1..(MaxTasks + 1)

\* the names handed to handleTaskCreate: a plain one and one made of the
\* characters JSON escapes
StoreNames == {<<"a">>, <<Quote, Backslash>>}

StoreStep(st, event) ==
    /\ state' = st
    /\ localStorage' = SaveEffect(st)
    /\ last' = event
    /\ UNCHANGED uiVars
    /\ UNCHANGED fnVars

StoreInit ==
    /\ state = initialState
    /\ gridMonth = initialState.currentMonth
    /\ bars = [k \in {} |-> FreshBar]
    /\ listeners = {}
    /\ bodyStyle = NoOverride
    /\ localStorage = JSONstringify(initialState.tasks)
    /\ last = Event("mount", Undefined, Undefined, 0)
    /\ fnArgs = 0
    /\ fnResult = 0
    /\ fnPhase = "idle"

StoreSelectionStart(isoDate) ==
    StoreStep(handleSelectionStart(state, isoDate),
              Event("SELECTION_START", isoDate, Undefined, 0))

StoreSelectionUpdate(isoDate) ==
    StoreStep(handleSelectionUpdate(state, isoDate),
              Event("SELECTION_UPDATE", isoDate, Undefined, 0))

StoreSelectionEnd ==
    StoreStep(handleSelectionEnd(state),
              Event("SELECTION_END", state.selection.start, state.selection.end, 0))

StoreModalClose ==
    StoreStep(handleModalClose(state), Event("MODAL_CLOSE", Undefined, Undefined, 0))

StoreTaskCreate(name, category) ==
    /\ Len(state.tasks) < MaxTasks
    /\ StoreStep(handleTaskCreate(state, name, category),
                 Event("TASK_CREATE", state.modal.draftRange.start,
                       state.modal.draftRange.end, 0))

\* the event records the task's start before the move (Undefined if no task
\* has the id)
StoreTaskMove(taskId, newStartDate) ==
    LET k == FindTask(state.tasks, taskId)
    IN  StoreStep(handleTaskMove(state, taskId, newStartDate),
                  Event("TASK_MOVE", newStartDate,
                        IF k = 0 THEN Undefined ELSE state.tasks[k].start, taskId))

StoreTaskResize(taskId, newStart, newEnd) ==
    StoreStep(handleTaskResize(state, taskId, newStart, newEnd),
              Event("TASK_RESIZE", newStart, newEnd, taskId))

\* the page is loaded again: the store starts from the lazy initializer and
\* the effect saves on mount (the event records, as 1, that the store held more
\* than tasks before)
StoreReload ==
    \E st \in {LazyInit(localStorage)} :
        /\ state' = st
        /\ localStorage' = JSONstringify(st.tasks)
        /\ last' = Event("reload", Undefined, Undefined,
                         IF state = [initialState EXCEPT !.tasks = state.tasks]
                         THEN 0 ELSE 1)
        /\ UNCHANGED uiVars
        /\ UNCHANGED fnVars

StoreNext ==
    \/ \E d \in StoreIsoDates : StoreSelectionStart(d)
    \/ \E d \in StoreIsoDates : StoreSelectionUpdate(d)
    \/ StoreSelectionEnd
    \/ StoreModalClose
    \/ \E name \in StoreNames, c \in CategoryInputs : StoreTaskCreate(name, c)
    \/ \E id \in StoreTaskIds, d \in StoreIsoDates : StoreTaskMove(id, d)
    \/ \E id \in StoreTaskIds, a \in StoreIsoDates, b \in StoreIsoDates :
            StoreTaskResize(id, a, b)
    \/ StoreReload

SpecStore == StoreInit /\ [][StoreNext]_vars

-----------------------------------------------------------------------------
(* The store with two tasks in it, moved and resized: SpecFrame *)

\* the two tasks, created one after the other over dates of the store's window
FrameTasks ==
    {<< [id |-> 1, name |-> <<"a">>, category |-> "To Do", start |-> r1[1], end |-> r1[2]],
        [id |-> 2, name |-> <<"b">>, category |-> "Review", start |-> r2[1], end |-> r2[2]] >> :
        r1 \in {r \in StoreIsoDates \X StoreIsoDates : r[1] <= r[2]},
        r2 \in {r \in StoreIsoDates \X StoreIsoDates : r[1] <= r[2]}}

\* what else the store holds when a move or a resize arrives: nothing, or a
\* selection in progress, an open modal, filters set and another month
FrameRest ==
    {initialState,
     [initialState EXCEPT
        !.selection = [start |-> 20240228, end |-> 20240229, isSelecting |-> TRUE],
        !.modal = [open |-> TRUE, draftRange |-> [start |-> 20240228, end |-> 20240301]],
        !.filters = [search |-> <<"a">>, categories |-> <<"Review">>, timeRangeWeeks |-> 1],
        !.currentMonth = addMonths(ClockNow, 1)]}

FrameInit ==
    \E taskList \in FrameTasks, rest \in FrameRest :
        /\ state = [rest EXCEPT !.tasks = taskList]
        /\ gridMonth = initialState.currentMonth
        /\ bars = [k \in {} |-> FreshBar]
        /\ listeners = {}
        /\ bodyStyle = NoOverride
        /\ localStorage = JSONstringify(taskList)
        /\ last = Event("mount", Undefined, Undefined, 0)
        /\ fnArgs = 0
        /\ fnResult = 0
        /\ fnPhase = "idle"

\* the ids of the two tasks and one no task has
FrameTaskIds == {1, 2, 3}

FrameNext ==
    \/ \E id \in FrameTaskIds, d \in StoreIsoDates : StoreTaskMove(id, d)
    \/ \E id \in FrameTaskIds, a \in StoreIsoDates, b \in StoreIsoDates :
            StoreTaskResize(id, a, b)

SpecFrame == FrameInit /\ [][FrameNext]_vars

-----------------------------------------------------------------------------
(* The store with two tasks in it, a third one selected and created:
   SpecCreate *)

\* the store holds at most this many tasks
CreateMaxTasks == 3

CreateInit ==
    \E taskList \in {t \in FrameTasks : t[1].start < t[1].end /\ t[2].start = t[1].end} :
        /\ state = [initialState EXCEPT !.tasks = taskList]
        /\ gridMonth = initialState.currentMonth
        /\ bars = [k \in {} |-> FreshBar]
        /\ listeners = {}
        /\ bodyStyle = NoOverride
        /\ localStorage = JSONstringify(taskList)
        /\ last = Event("mount", Undefined, Undefined, 0)
        /\ fnArgs = 0
        /\ fnResult = 0
        /\ fnPhase = "idle"

\* handleTaskCreate, called by the modal's submit or with no modal open (the
\* event records the draft range before it, Undefined twice if there is none)
CreateTaskCreate(name, category) ==
    /\ Len(state.tasks) < CreateMaxTasks
    /\ StoreStep(handleTaskCreate(state, name, category),
                 Event("TASK_CREATE", state.modal.draftRange.start,
                       state.modal.draftRange.end, 0))

CreateNext ==
    \/ \E d \in StoreIsoDates : StoreSelectionStart(d)
    \/ \E d \in StoreIsoDates : StoreSelectionUpdate(d)
    \/ StoreSelectionEnd
    \/ StoreModalClose
    \/ \E name \in StoreNames, c \in CategoryInputs : CreateTaskCreate(name, c)

SpecCreate == CreateInit /\ [][CreateNext]_vars

-----------------------------------------------------------------------------
(* calculateTaskSegments on its own: a task and a month are drawn, the grid of
   the month is built and the function applied *)

\* the task starts on one of this many consecutive days from 2024-02-20 ...
SegStarts == 21

\* ... and lasts at most this many days
SegMaxDays == 16

SegTasks ==
    {[ id       |-> 1,
       name     |-> <<"a">>,
       category |-> "To Do",
       start    |-> format(addDays(parseISO(20240220), i)),
       end      |-> format(addDays(parseISO(20240220), i + n - 1)) ] :
        i \in 0..(SegStarts - 1), n \in 1..SegMaxDays}

SegMonths == WindowMonths

FnInit(args) ==
    /\ state = initialState
    /\ gridMonth = initialState.currentMonth
    /\ bars = [k \in {} |-> FreshBar]
    /\ listeners = {}
    /\ bodyStyle = NoOverride
    /\ localStorage = <<>>
    /\ last = Event("mount", Undefined, Undefined, 0)
    /\ fnArgs = args
    /\ fnResult = <<>>
    /\ fnPhase = "in"

FnStep(args, result, phase) ==
    /\ fnArgs' = args
    /\ fnResult' = result
    /\ fnPhase' = phase
    /\ UNCHANGED <<state, localStorage, last>>
    /\ UNCHANGED uiVars

SegInit ==
    \E task \in SegTasks, month \in SegMonths :
        FnInit([task |-> task, rows |-> generateMonthGrid(month, ClockNow)])

SegApply ==
    /\ fnPhase = "in"
    /\ FnStep(fnArgs, calculateTaskSegments(fnArgs.task, fnArgs.rows), "out")

SegNext == SegApply

SpecSeg == SegInit /\ [][SegNext]_vars

-----------------------------------------------------------------------------
(* generateMonthGrid on its own: a Date is drawn and the grid of its month
   built *)

\* the Date lies in one of this many consecutive months from January 2020
GridMonths == 120

\* the Dates handed to generateMonthGrid: for each month its first day at
\* midnight and its last day at the end of the day
GridDates ==
    UNION {{ startOfMonth(addMonths(parseISO(20200101), k)),
             endOfMonth(addMonths(parseISO(20200101), k)) } : k \in 0..(GridMonths - 1)}

GridInit == \E month \in GridDates : FnInit(month)

GridApply ==
    /\ fnPhase = "in"
    /\ FnStep(fnArgs, generateMonthGrid(fnArgs, ClockNow), "out")

GridNext == GridApply

SpecGrid == GridInit /\ [][GridNext]_vars

-----------------------------------------------------------------------------
(* normalizeDateRange and dateRangesOverlap on their own: four dates are
   drawn, in any order, as the end points of two ranges *)

\* the end points are among this many consecutive days from 2024-02-28
NumRangeDates == 4

RangeIsoDates == {format(addDays(parseISO(20240228), i)) : i \in 0..(NumRangeDates - 1)}

RangeInit ==
    \E a \in RangeIsoDates, b \in RangeIsoDates, c \in RangeIsoDates, d \in RangeIsoDates :
        FnInit([range1 |-> [start |-> a, end |-> b], range2 |-> [start |-> c, end |-> d]])

\* normalizeDateRange on the end points of the first range, in both orders
RangeNormalize ==
    /\ fnPhase = "in"
    /\ FnStep(fnArgs,
              [ ab |-> normalizeDateRange(fnArgs.range1.start, fnArgs.range1.end),
                ba |-> normalizeDateRange(fnArgs.range1.end, fnArgs.range1.start) ],
              "normalized")

\* dateRangesOverlap on the two ranges, in both orders
RangeOverlap ==
    /\ fnPhase = "in"
    /\ FnStep(fnArgs,
              [ ab |-> dateRangesOverlap(fnArgs.range1, fnArgs.range2),
                ba |-> dateRangesOverlap(fnArgs.range2, fnArgs.range1) ],
              "overlap")

RangeNext == RangeNormalize \/ RangeOverlap

SpecRange == RangeInit /\ [][RangeNext]_vars

-----------------------------------------------------------------------------
(* filterTasks on its own: a task list and the filters are drawn *)

\* tasks in the list
FilterMaxTasks == 2

\* names that differ in case, one of them with a space inside
FilterNames == {<<"a">>, <<"A", " ", "b">>}

\* ranges around the clock's day 2024-03-15: ending on it, starting on the
\* last day of "within 1 week", starting the day after
FilterRanges ==
    { [start |-> 20240312, end |-> 20240315],
      [start |-> 20240322, end |-> 20240325],
      [start |-> 20240323, end |-> 20240330] }

FilterTaskLists ==
    UNION {{ [i \in 1..n |-> [ id       |-> i,
                               name     |-> f[i][1],
                               category |-> f[i][2],
                               start    |-> f[i][3].start,
                               end      |-> f[i][3].end ]] :
                f \in [1..n -> FilterNames \X CategoryInputs \X FilterRanges] } :
           n \in 0..FilterMaxTasks}

\* what the filter panel can hold: the search box any text, the check boxes
\* any categories, the radio buttons 0 (All) to 3 weeks
FilterSearches == {<<>>, <<" ">>, <<"a">>, <<"B">>, <<" ", "b">>}

FilterCategoryLists == {<<>>, <<"Review">>, <<"To Do", "Review">>}

FilterStates ==
    {[search |-> q, categories |-> c, timeRangeWeeks |-> w] :
        q \in FilterSearches, c \in FilterCategoryLists, w \in 0..3}

FilterInit ==
    \E taskList \in FilterTaskLists, filters \in FilterStates :
        FnInit([tasks |-> taskList, filters |-> filters])

FilterApply ==
    /\ fnPhase = "in"
    /\ FnStep(fnArgs, filterTasks(fnArgs.tasks, fnArgs.filters, ClockNow), "out")

FilterNext == FilterApply

SpecFilter == FilterInit /\ [][FilterNext]_vars

-----------------------------------------------------------------------------
(* calculateRowIndices on its own: the segments of one week are put together
   one by one, then the function is applied *)

\* segments in the week
MaxSegments == 3

\* the week row the segments lie in
RowsWeekStart == parseISO(20240310)

\* a segment as calculateTaskSegments builds it, for the task with that id
WeekSegment(id, startColumn, widthInColumns) ==
    LET startDate == format(addDays(RowsWeekStart, startColumn))
        endDate   == format(addDays(RowsWeekStart, startColumn + widthInColumns - 1))
    IN  [ task           |-> [ id |-> id, name |-> <<"a">>, category |-> "To Do",
                               start |-> startDate, end |-> endDate ],
          startDate      |-> startDate,
          endDate        |-> endDate,
          startColumn    |-> startColumn,
          widthInColumns |-> widthInColumns,
          rowIndex       |-> 0 ]

RowsInit == FnInit(<<>>)

RowsPush(startColumn, widthInColumns) ==
    /\ fnPhase = "in"
    /\ Len(fnArgs) < MaxSegments
    /\ startColumn + widthInColumns <= 7
    /\ FnStep(Append(fnArgs, WeekSegment(Len(fnArgs) + 1, startColumn, widthInColumns)),
              fnResult, "in")

RowsApply ==
    /\ fnPhase = "in"
    /\ FnStep(fnArgs, calculateRowIndices(fnArgs), "out")

\* a second pass over the result of the first, row indices already set
RowsApplyAgain ==
    /\ fnPhase = "out"
    /\ FnStep(fnResult, calculateRowIndices(fnResult), "again")

RowsNext ==
    \/ \E c \in 0..6, w \in 1..7 : RowsPush(c, w)
    \/ RowsApply
    \/ RowsApplyAgain

SpecRows == RowsInit /\ [][RowsNext]_vars

-----------------------------------------------------------------------------
(* calculateRowIndices on longer lists of segments in the first columns of a
   week: SpecStack *)

\* the list holds at most this many segments ...
StackMaxSegments == 4

\* ... which lie in this many columns, from the first on
StackColumns == 4

StackInit == FnInit(<<>>)

StackPush(startColumn, widthInColumns) ==
    /\ fnPhase = "in"
    /\ Len(fnArgs) < StackMaxSegments
    /\ startColumn + widthInColumns <= StackColumns
    /\ FnStep(Append(fnArgs, WeekSegment(Len(fnArgs) + 1, startColumn, widthInColumns)),
              fnResult, "in")

StackApply ==
    /\ fnPhase = "in"
    /\ FnStep(fnArgs, calculateRowIndices(fnArgs), "out")

StackNext ==
    \/ \E c \in 0..6, w \in 1..7 : StackPush(c, w)
    \/ StackApply

SpecStack == StackInit /\ [][StackNext]_vars

-----------------------------------------------------------------------------
(* CalendarMonth's segments of two tasks, grouped by week: SpecGroup *)

\* a task starts on one of this many consecutive days ...
GroupStarts == 6

\* ... and lasts at most this many days
GroupMaxDays == 9

GroupTasks(id) ==
    {[ id       |-> id,
       name     |-> <<"a">>,
       category |-> "To Do",
       start    |-> format(addDays(parseISO(20240327), i)),
       end      |-> format(addDays(parseISO(20240327), i + n - 1)) ] :
        i \in 0..(GroupStarts - 1), n \in 1..GroupMaxDays}

GroupInit ==
    \E t1 \in GroupTasks(1), t2 \in GroupTasks(2), month \in WindowMonths :
        FnInit([tasks |-> <<t1, t2>>, rows |-> MonthGrids[month], taskSegments |-> <<>>])

\* the body of CalendarMonth: taskSegments, the segments of every task, then
\* their groups
GroupApply ==
    /\ fnPhase = "in"
    /\ \E taskSegments \in {calculateAllTaskSegments(fnArgs.tasks, fnArgs.rows)} :
            FnStep([fnArgs EXCEPT !.taskSegments = taskSegments],
                   groupSegmentsByWeek(taskSegments, fnArgs.rows),
                   "out")

GroupNext == GroupApply

SpecGroup == GroupInit /\ [][GroupNext]_vars

-----------------------------------------------------------------------------
(* Properties *)

\* C1: in every state reachable by pointer events on day cells, task bars and
\* resize handles at most one interaction mode is active: a selection in
\* progress, a task bar dragging and a task bar resizing exclude one another,
\* and no two task bars are in a gesture at once.
C1_AtMostOneMode == ModesActive <= 1

\* C2: starting from an empty task list, after any sequence of selection
\* commits, task creations, TASK_MOVE and TASK_RESIZE actions every task in the
\* store has start <= end.
C2_TasksOrdered ==
    \A i \in 1..Len(state.tasks) :
        parseISO(state.tasks[i].start) <= parseISO(state.tasks[i].end)

\* a resize called with its dates in reverse order has stored them in order
C2_Witness ==
    /\ last.type = "TASK_RESIZE"
    /\ last.d1 > last.d2
    /\ \E i \in 1..Len(state.tasks) :
            /\ state.tasks[i].id = last.n
            /\ state.tasks[i].start = last.d2
            /\ state.tasks[i].end = last.d1

\* the column ranges [startColumn, startColumn + widthInColumns - 1] intersect
ColumnsIntersect(a, b) ==
    \E c \in 0..6 :
        /\ c \in a.startColumn..(a.startColumn + a.widthInColumns - 1)
        /\ c \in b.startColumn..(b.startColumn + b.widthInColumns - 1)

\* C3: within one week group calculateRowIndices never gives the same
\* rowIndex to two segments whose column ranges intersect, for every list of
\* segments of that week.
C3_NoSharedRow ==
    fnPhase # "in" =>
        \A i, j \in 1..Len(fnResult) :
            i < j /\ ColumnsIntersect(fnResult[i], fnResult[j])
                => fnResult[i].rowIndex # fnResult[j].rowIndex

\* three segments, each intersecting the other two (the first two in one
\* column only), came out in three rows
C3_Witness ==
    /\ fnPhase = "out"
    /\ Len(fnResult) = 3
    /\ \A i, j \in 1..3 : ColumnsIntersect(fnResult[i], fnResult[j])
    /\ fnResult[1].startColumn + fnResult[1].widthInColumns - 1 = fnResult[2].startColumn
    /\ {fnResult[i].rowIndex : i \in 1..3} = {0, 1, 2}

\* the week rows of the grid the task has a day in, in grid order
SegTouched ==
    LET rows  == fnArgs.rows
        hit   == {w \in 1..Len(rows) :
                    /\ parseISO(fnArgs.task.start) <= startOfDay(rows[w].endDate)
                    /\ parseISO(fnArgs.task.end) >= startOfDay(rows[w].startDate)}
    IN  [k \in 1..Cardinality(hit) |->
            CHOOSE w \in hit : Cardinality({v \in hit : v < w}) = k - 1]

\* the k-th segment lies within the k-th touched week
SegClamped ==
    \A k \in 1..Len(fnResult) :
        k <= Len(SegTouched) =>
            LET week == fnArgs.rows[SegTouched[k]]
            IN  /\ startOfDay(week.startDate) <= parseISO(fnResult[k].startDate)
                /\ parseISO(fnResult[k].startDate) <= parseISO(fnResult[k].endDate)
                /\ parseISO(fnResult[k].endDate) <= startOfDay(week.endDate)

\* the day spans of the segments, one after the other, are the days from
\* `first` to `final`: no gap, no overlap
SegReconstructs(first, final) ==
    /\ fnResult[1].startDate = first
    /\ fnResult[Len(fnResult)].endDate = final
    /\ \A k \in 1..(Len(fnResult) - 1) :
            parseISO(fnResult[k + 1].startDate) = addDays(parseISO(fnResult[k].endDate), 1)

\* C4, as claimed: if the task touches weeks W1..Wn of the grid then
\* calculateTaskSegments returns exactly n segments, each clamped to its week,
\* and the segments' day spans put together are the original task range
\* [task.start, task.end] with no gaps and no overlaps.
C4_Original ==
    fnPhase = "out" /\ Len(SegTouched) > 0 =>
        /\ Len(fnResult) = Len(SegTouched)
        /\ SegClamped
        /\ SegReconstructs(fnArgs.task.start, fnArgs.task.end)

SegGridStart == startOfDay(fnArgs.rows[1].startDate)

SegGridEnd == startOfDay(fnArgs.rows[Len(fnArgs.rows)].endDate)

\* C4, amended: if the task touches weeks W1..Wn of the grid then
\* calculateTaskSegments returns exactly n segments, each clamped to its week,
\* and the segments' day spans put together are, with no gaps and no overlaps,
\* the part of the task range inside the grid,
\* [max(task.start, grid start), min(task.end, grid end)], which is the
\* original range when the task lies inside the grid; a task touching no week
\* yields no segment.
C4_Amended ==
    fnPhase = "out" =>
        /\ Len(fnResult) = Len(SegTouched)
        /\ SegClamped
        /\ Len(SegTouched) > 0 =>
                SegReconstructs(format(Max(parseISO(fnArgs.task.start), SegGridStart)),
                                format(Min(parseISO(fnArgs.task.end), SegGridEnd)))

\* a task that starts before the grid and ends in its second week came out as
\* two segments
C4_Witness ==
    /\ fnPhase = "out"
    /\ parseISO(fnArgs.task.start) < SegGridStart
    /\ Len(SegTouched) = 2
    /\ Len(fnResult) = 2
    /\ fnResult[2].endDate = fnArgs.task.end

\* C5: a move of task T to date d sets T.start = d and T.end = d + (oldEnd -
\* oldStart), so every move leaves the task's inclusive day count as it was.
C5_MoveKeepsDuration ==
    [][last'.type = "TASK_MOVE" =>
        \A i \in 1..Len(state.tasks) :
            state.tasks[i].id = last'.n =>
                /\ Len(state'.tasks) = Len(state.tasks)
                /\ state'.tasks[i].start = last'.d1
                /\ parseISO(state'.tasks[i].end) =
                       parseISO(last'.d1) + (parseISO(state.tasks[i].end)
                                                - parseISO(state.tasks[i].start))
                /\ (parseISO(state'.tasks[i].end) - parseISO(state'.tasks[i].start)) \div 2 + 1
                       = (parseISO(state.tasks[i].end) - parseISO(state.tasks[i].start)) \div 2 + 1
    ]_vars

\* a task of several days has been moved to another start date
C5_Witness ==
    /\ last.type = "TASK_MOVE"
    /\ last.d2 # Undefined
    /\ last.d2 # last.d1
    /\ \E i \in 1..Len(state.tasks) :
            /\ state.tasks[i].id = last.n
            /\ state.tasks[i].start = last.d1
            /\ parseISO(state.tasks[i].end) > parseISO(state.tasks[i].start)

\* the date of the day cell in the bar's week row at horizontal offset x from
\* the grid's left edge
ColumnDate(key, x) ==
    weekRows[key[2] + 1].days[Max(0, Min(6, x \div cellWidth)) + 1].isoDate

\* the task of the store with that id
StoreTask(st, taskId) == st.tasks[FindTask(st.tasks, taskId)]

\* C6: a resize of task [s,e] with resolved date d emits [min(d,e), e] when
\* the left edge is dragged and [s, max(d,s)] when the right edge is dragged: a
\* target past the opposite edge collapses to the one-day range at the
\* non-moving edge, and the non-moving edge never changes.  Stated of the
\* pointer-move that resolves d while one bar is resizing.
C6_ResizeEmitsClamped ==
    [][last'.type = "pointerMove" /\ DraggingBars = {} /\ Cardinality(ResizingBars) = 1 =>
        \A k \in ResizingBars, x \in PointerXs :
            (\E row \in PointerRows : DocPointerMove(x, row)) =>
                LET old == StoreTask(state, k[1])
                    new == StoreTask(state', k[1])
                    d   == ColumnDate(k, x)
                IN  IF bars[k].isResizing = "left"
                    THEN /\ new.start = IF parseISO(d) <= parseISO(old.end) THEN d ELSE old.end
                         /\ new.end = old.end
                    ELSE /\ new.start = old.start
                         /\ new.end = IF parseISO(d) >= parseISO(old.start) THEN d ELSE old.start
    ]_vars

\* C7: when a pointer-up ends a selection with anchor a and cursor c, the
\* selection is cleared and the creation modal opens with exactly the draft
\* range {start: min(a,c), end: max(a,c)}, whether the drag went forward or
\* backward.
C7_PointerUpCommits ==
    [][last'.type = "pointerUp" /\ state.selection.isSelecting =>
        LET a == state.selection.start
            c == state.selection.end
        IN  /\ state'.selection = NoSelection
            /\ state'.modal.open
            /\ state'.modal.draftRange =
                    [ start |-> IF parseISO(a) <= parseISO(c) THEN a ELSE c,
                      end   |-> IF parseISO(a) <= parseISO(c) THEN c ELSE a ]
    ]_vars

\* a selection dragged backward (cursor before anchor) has been released and
\* the modal holds the range in order
C7_Witness ==
    /\ last.type = "pointerUp"
    /\ last.d2 # Undefined
    /\ last.d1 > last.d2
    /\ ~state.selection.isSelecting
    /\ state.modal.open
    /\ state.modal.draftRange = [start |-> last.d2, end |-> last.d1]

\* C8: from any state in which a selection, a drag or a resize is active, the
\* next pointer-up leaves the controller idle: isSelecting is false and no task
\* bar is dragging or resizing.
C8_PointerUpIdles ==
    [][last'.type = "pointerUp" /\ ModesActive >= 1 =>
        /\ ~state'.selection.isSelecting
        /\ \A k \in DOMAIN bars' : ~BarActive(bars'[k])
    ]_vars

\* a pointer-up arrived while a selection and two task bars were active, and
\* nothing is active now
C8_Witness ==
    /\ last.type = "pointerUp"
    /\ last.d1 # Undefined
    /\ last.n = 2
    /\ ModesActive = 0
    /\ DOMAIN bars # {}

\* C9: a drag stays in Dragging for the same task across pointer-moves: a
\* pointer-move that resolves to a date other than the task's start emits a
\* move (the task's start becomes that date), after it the controller is still
\* dragging that task, and so for every later pointer-move before pointer-up.
C9_DragMovesLive ==
    [][last'.type = "pointerMove" /\ ResizingBars = {} /\ Cardinality(DraggingBars) = 1 =>
        \A k \in DraggingBars, x \in PointerXs :
            (\E row \in PointerRows : DocPointerMove(x, row)) =>
                /\ StoreTask(state', k[1]).start = ColumnDate(k, x)
                /\ \E j \in DOMAIN bars' : j[1] = k[1] /\ bars'[j].isDragging
    ]_vars

GridDays == SeqConcatAll([w \in 1..Len(fnResult) |-> fnResult[w].days])

\* year * 100 + month of the Date the grid was asked for
GridYearMonth == format(fnArgs) \div 100

\* the first and the last day of that month, at midnight
GridMonthFirst == parseISO(GridYearMonth * 100 + 1)

GridMonthLast ==
    parseISO(GridYearMonth * 100 + DaysInMonth(GridYearMonth \div 100, GridYearMonth % 100))

\* C11: for every month, generateMonthGrid returns week rows whose total day
\* count is a multiple of 7, each week row has exactly 7 days, the days are
\* strictly consecutive across the whole grid, and isCurrentMonth is true for
\* exactly the days from the month's first date to its last date.
C11_GridWellFormed ==
    fnPhase = "out" =>
        /\ Len(GridDays) % 7 = 0
        /\ \A w \in 1..Len(fnResult) : Len(fnResult[w].days) = 7
        /\ \A i \in 1..(Len(GridDays) - 1) :
                /\ GridDays[i + 1].date = addDays(GridDays[i].date, 1)
                /\ parseISO(GridDays[i + 1].isoDate) = parseISO(GridDays[i].isoDate) + 2
        /\ \A i \in 1..Len(GridDays) :
                GridDays[i].isCurrentMonth <=>
                    /\ GridMonthFirst <= parseISO(GridDays[i].isoDate)
                    /\ parseISO(GridDays[i].isoDate) <= GridMonthLast
        /\ Cardinality({i \in 1..Len(GridDays) : GridDays[i].isCurrentMonth})
                = (GridMonthLast - GridMonthFirst) \div 2 + 1

\* the grid of a month has come out with days of the month before in its
\* first row and days of the month after in its last row
C11_Witness ==
    /\ fnPhase = "out"
    /\ Len(fnResult) = 6
    /\ ~fnResult[1].days[1].isCurrentMonth
    /\ fnResult[1].days[7].isCurrentMonth
    /\ fnResult[6].days[1].isCurrentMonth
    /\ ~fnResult[6].days[7].isCurrentMonth

\* C12: for every month, the grid starts on the week-start weekday (Sunday)
\* of the week containing the month's 1st and ends on the last weekday
\* (Saturday) of the week containing the month's last day, and the number of
\* week rows is 4, 5 or 6 (never fewer, never more).
C12_GridWholeWeeks ==
    fnPhase = "out" =>
        /\ Len(fnResult) \in {4, 5, 6}
        /\ LET first == fnResult[1].days[1].date
               final == fnResult[Len(fnResult)].days[7].date
           IN  /\ getDay(first) = 0
               /\ first <= GridMonthFirst
               /\ GridMonthFirst < addDays(first, 7)
               /\ getDay(final) = 6
               /\ GridMonthLast <= final
               /\ addDays(final, -7) < GridMonthLast
               /\ fnResult[1].startDate = first
               /\ fnResult[Len(fnResult)].endDate = final

\* a February of 28 days that starts on a Sunday has come out as four rows
C12_Witness ==
    /\ fnPhase = "out"
    /\ Len(fnResult) = 4
    /\ GridYearMonth % 100 = 2
    /\ fnResult[1].days[1].isCurrentMonth
    /\ fnResult[4].days[7].isCurrentMonth

\* the week rows of the grid that hold the whole task range
SegHoldingWeeks ==
    {w \in 1..Len(fnArgs.rows) :
        /\ startOfDay(fnArgs.rows[w].startDate) <= parseISO(fnArgs.task.start)
        /\ parseISO(fnArgs.task.end) <= startOfDay(fnArgs.rows[w].endDate)}

\* C13: for every task whose range lies inside a single week row of the grid,
\* calculateTaskSegments returns exactly one segment, and its widthInColumns
\* equals the task's inclusive day count (end - start + 1).
C13_OneWeekOneSegment ==
    fnPhase = "out" /\ SegHoldingWeeks # {} =>
        /\ Len(fnResult) = 1
        /\ fnResult[1].widthInColumns =
                (parseISO(fnArgs.task.end) - parseISO(fnArgs.task.start)) \div 2 + 1
        /\ fnResult[1].widthInColumns = dayCountInclusive(fnArgs.task.start, fnArgs.task.end)

\* a task that fills a week row from its Sunday to its Saturday came out as
\* one segment seven columns wide
C13_Witness ==
    /\ fnPhase = "out"
    /\ \E w \in SegHoldingWeeks :
            /\ parseISO(fnArgs.task.start) = startOfDay(fnArgs.rows[w].startDate)
            /\ parseISO(fnArgs.task.end) = startOfDay(fnArgs.rows[w].endDate)
    /\ Len(fnResult) = 1
    /\ fnResult[1].startColumn = 0
    /\ fnResult[1].widthInColumns = 7

\* C14: a pointer-down on a day cell with date d in Idle enters Selecting with
\* anchor = d and cursor = d (selection.start = selection.end = d,
\* isSelecting = true).
C14_PointerDownSelects ==
    [][last'.type = "cellDown" /\ ModesActive = 0 =>
        /\ last'.n = 0
        /\ state'.selection =
                [start |-> last'.d1, end |-> last'.d1, isSelecting |-> TRUE]
        /\ state' = [state EXCEPT !.selection = state'.selection]
    ]_vars

\* a pointer-down on a day cell arrived in Idle and a selection is in
\* progress, anchor and cursor on that cell
C14_Witness ==
    /\ last.type = "cellDown"
    /\ last.n = 0
    /\ last.d1 \in PointerIsoDates
    /\ state.selection = [start |-> last.d1, end |-> last.d1, isSelecting |-> TRUE]
    /\ ModesActive = 1

\* C15: while Selecting, a pointer-enter on a cell with the button held sets
\* the cursor (selection.end) to that cell's date and leaves the anchor
\* (selection.start) unchanged; a pointer-enter without the button held, or
\* while no selection is in progress, changes nothing.
C15_PointerEnterExtends ==
    [][last'.type = "cellEnter" =>
        IF state.selection.isSelecting /\ last'.n = 1
        THEN /\ state'.selection.end = last'.d1
             /\ state'.selection.start = state.selection.start
             /\ state'.selection.isSelecting
             /\ state' = [state EXCEPT !.selection = state'.selection]
        ELSE /\ state' = state
             /\ UNCHANGED uiVars
    ]_vars

\* a pointer-enter with the button held has moved the cursor of a selection
\* in progress to its cell, away from the anchor
C15_Witness ==
    /\ last.type = "cellEnter"
    /\ last.n = 1
    /\ state.selection.isSelecting
    /\ state.selection.end = last.d1
    /\ state.selection.start # last.d1

\* C16: task movement works across week boundaries: during a move drag the
\* pointer resolves to the date of the cell in the week row under the pointer,
\* so a task can be moved so that its start lies in a week row different from
\* the week row of the grabbed bar segment.  Stated of the pointer-move over
\* column x of week row `row` while one bar is dragging: the task's start
\* becomes the date of that cell.
C16_MoveAcrossWeeks ==
    [][last'.type = "pointerMove" /\ ResizingBars = {} /\ Cardinality(DraggingBars) = 1 =>
        \A k \in DraggingBars, x \in PointerXs, row \in PointerRows :
            row + 1 \in DOMAIN weekRows /\ DocPointerMove(x, row) =>
                StoreTask(state', k[1]).start =
                    weekRows[row + 1].days[Max(0, Min(6, x \div cellWidth)) + 1].isoDate
    ]_vars

\* C17: for all dates a and b, normalizeDateRange(a,b) equals
\* normalizeDateRange(b,a), its start is <= its end, and its two endpoints are
\* exactly {min(a,b), max(a,b)}.
C17_NormalizeSymmetric ==
    fnPhase = "normalized" =>
        LET a == fnArgs.range1.start
            b == fnArgs.range1.end
        IN  /\ fnResult.ab = fnResult.ba
            /\ parseISO(fnResult.ab.start) <= parseISO(fnResult.ab.end)
            /\ fnResult.ab.start = Min(a, b)
            /\ fnResult.ab.end = Max(a, b)

\* normalizeDateRange was given a later date first and returned the two in
\* order
C17_Witness ==
    /\ fnPhase = "normalized"
    /\ fnArgs.range1.start > fnArgs.range1.end
    /\ fnResult.ab = [start |-> fnArgs.range1.end, end |-> fnArgs.range1.start]
    /\ fnResult.ba = fnResult.ab

\* C18: dateRangesOverlap(r1,r2) is true exactly when r1.start <= r2.end and
\* r2.start <= r1.end (closed intervals, touching endpoints overlap), and it
\* is symmetric: dateRangesOverlap(r1,r2) = dateRangesOverlap(r2,r1) for all
\* ranges.
C18_OverlapClosed ==
    fnPhase = "overlap" =>
        /\ fnResult.ab <=> (/\ fnArgs.range1.start <= fnArgs.range2.end
                            /\ fnArgs.range2.start <= fnArgs.range1.end)
        /\ fnResult.ab = fnResult.ba

\* two ranges of several days that share only one end point overlap
C18_Witness ==
    /\ fnPhase = "overlap"
    /\ fnArgs.range1.start < fnArgs.range1.end
    /\ fnArgs.range1.end = fnArgs.range2.start
    /\ fnArgs.range2.start < fnArgs.range2.end
    /\ fnResult.ab = TRUE
    /\ fnResult.ba = TRUE

\* C19: row stacking is deterministic and stable: running calculateRowIndices
\* again on the same segment list, including on its own output with rowIndex
\* already populated by a previous run, yields the same rowIndex for every
\* segment.
C19_RestackSame ==
    fnPhase = "again" =>
        /\ Len(fnResult) = Len(fnArgs)
        /\ \A i \in 1..Len(fnResult) : fnResult[i].rowIndex = fnArgs[i].rowIndex
        /\ fnResult = fnArgs
        /\ fnResult = calculateRowIndices([i \in 1..Len(fnArgs) |->
                                              [fnArgs[i] EXCEPT !.rowIndex = 0]])

\* three segments, one stacked in row 0 and two in row 1, the list not in
\* column order, have been stacked a second time from that result
C19_Witness ==
    /\ fnPhase = "again"
    /\ Len(fnArgs) = 3
    /\ fnArgs[1].startColumn > fnArgs[2].startColumn
    /\ {fnArgs[i].rowIndex : i \in 1..3} = {0, 1}
    /\ \E i, j \in 1..3 : i # j /\ fnArgs[i].rowIndex = 1 /\ fnArgs[j].rowIndex = 1
    /\ fnResult = fnArgs

\* the name contains the search text, letter case set aside
NameContains(task, search) == includes(toLowerCase(task.name), toLowerCase(search))

\* the category is among the selected ones
CategorySelected(task, categories) == \E i \in 1..Len(categories) : categories[i] = task.category

\* the task range overlaps [today, today + 7 * weeks days]
WithinWeeks(task, weeks) ==
    /\ task.start <= format(addDays(ClockNow, 7 * weeks))
    /\ format(ClockNow) <= task.end

\* the tasks of the list that pass, in the order of the list; `searchOff`
\* tells whether the search text imposes no restriction
PassingTasks(searchOff) ==
    LET filters == fnArgs.filters
        passes(task) ==
            /\ searchOff \/ NameContains(task, filters.search)
            /\ filters.categories = <<>> \/ CategorySelected(task, filters.categories)
            /\ filters.timeRangeWeeks = 0 \/ WithinWeeks(task, filters.timeRangeWeeks)
    IN  SelectSeq(fnArgs.tasks, passes)

\* C20, as claimed: filterTasks returns, in original order and unmodified,
\* exactly the tasks that pass all active filters together (AND): name
\* contains the search text case-insensitively, category is among the selected
\* categories, and the task range overlaps [today, today + 7*N days] for time
\* range N; an empty search, an empty category selection and time range 0 each
\* impose no restriction.
C20_Original ==
    fnPhase = "out" => fnResult = PassingTasks(fnArgs.filters.search = <<>>)

\* the search text is empty or made of white space only
BlankSearch == \A i \in 1..Len(fnArgs.filters.search) : fnArgs.filters.search[i] = " "

\* C20, amended: filterTasks returns, in original order and unmodified,
\* exactly the tasks that pass all active filters together (AND): name
\* contains the search text (as typed, not trimmed) case-insensitively,
\* category is among the selected categories, and the task range overlaps
\* [today, today + 7*N days] for time range N; a search that is empty or
\* consists only of white space, an empty category selection and time range 0
\* each impose no restriction.
C20_Amended ==
    fnPhase = "out" => fnResult = PassingTasks(BlankSearch)

\* all three filters are on and, of two tasks, the first was dropped and the
\* second, whose name matches in another letter case, was kept
C20_Witness ==
    /\ fnPhase = "out"
    /\ fnArgs.filters.search = <<"B">>
    /\ fnArgs.filters.categories # <<>>
    /\ fnArgs.filters.timeRangeWeeks > 0
    /\ Len(fnArgs.tasks) = 2
    /\ fnResult = <<fnArgs.tasks[2]>>

\* the task list persisted in localStorage is the task list of the store
PersistedIsCurrent ==
    /\ JSONparse(localStorage).ok
    /\ JSONparse(localStorage).value = state.tasks

\* C21: after any sequence of create / move / resize operations, once the
\* save effect has run the persisted task list equals the in-memory task list,
\* and loading from persistence yields exactly that list with all other state
\* at its initial value.
C21_PersistRoundTrip ==
    /\ []PersistedIsCurrent
    /\ [][last'.type = "reload" =>
            state' = [initialState EXCEPT !.tasks = state.tasks]]_vars

\* the page was loaded again while the store held more than tasks, and the
\* store came back with its task, whose name is made of a quote and a
\* backslash, and nothing else
C21_Witness ==
    /\ last.type = "reload"
    /\ last.n = 1
    /\ Len(state.tasks) = 1
    /\ state.tasks[1].name = <<Quote, Backslash>>
    /\ state.tasks[1].start # state.tasks[1].end
    /\ state = [initialState EXCEPT !.tasks = state.tasks]
    /\ localStorage = JSONstringify(state.tasks)

\* the gestures in progress: whether a selection is going on and from which
\* anchor, and for every task bar whether it drags and which edge it resizes
GestureState ==
    [ isSelecting |-> state.selection.isSelecting,
      anchor      |-> state.selection.start,
      dragging    |-> DraggingBars,
      resizing    |-> [k \in ResizingBars |-> bars[k].isResizing] ]

\* C22: a pointer-down on a day cell, a task bar or a resize handle that
\* arrives while a gesture is already active is ignored: the interaction mode,
\* the gesture's task and edge, and the selection anchor are all unchanged.
C22_SecondPointerDownIgnored ==
    [][(/\ ModesActive >= 1
        /\ last'.type \in {"cellDown", "barDown", "resizeDown"})
            => GestureState' = GestureState]_vars

\* segment j of the list is placed before segment i: it has the smaller
\* startColumn, or the same one and comes earlier in the list
PlacedBefore(segments, j, i) ==
    \/ segments[j].startColumn < segments[i].startColumn
    \/ /\ segments[j].startColumn = segments[i].startColumn
       /\ j < i

\* the segments placed before segment i that lie in row r and whose column
\* range intersects that of segment i
EarlierInRow(segments, i, r) ==
    {j \in 1..Len(segments) :
        /\ PlacedBefore(segments, j, i)
        /\ segments[j].rowIndex = r
        /\ ColumnsIntersect(segments[j], segments[i])}

\* C23: calculateRowIndices is first-fit over the segments sorted by
\* startColumn, ties in input order: each segment gets the lowest row index r
\* such that no segment placed before it in row r intersects its columns, so a
\* segment in row k > 0 intersects an earlier-placed segment in each of the
\* rows 0..k-1, and the row indices used are exactly 0..max, without gaps.
C23_FirstFit ==
    fnPhase = "out" =>
        /\ Len(fnResult) = Len(fnArgs)
        /\ \A i \in 1..Len(fnResult) :
                /\ EarlierInRow(fnResult, i, fnResult[i].rowIndex) = {}
                /\ \A r \in 0..(fnResult[i].rowIndex - 1) :
                        EarlierInRow(fnResult, i, r) # {}
        /\ \A i \in 1..Len(fnResult) :
                \A r \in 0..fnResult[i].rowIndex :
                    \E j \in 1..Len(fnResult) : fnResult[j].rowIndex = r

\* A = [Mon, Wed] and B = [Tue, Thu] of a week that starts on Sunday were
\* stacked: A is in row 0 and B in row 1
C23_Witness ==
    /\ fnPhase = "out"
    /\ Len(fnResult) = 2
    /\ fnResult[1].startColumn = 1 /\ fnResult[1].widthInColumns = 3
    /\ fnResult[2].startColumn = 2 /\ fnResult[2].widthInColumns = 3
    /\ fnResult[1].rowIndex = 0
    /\ fnResult[2].rowIndex = 1

\* the week rows of the grid that hold the start date of the k-th segment
SegWeeksOf(k) ==
    {w \in 1..Len(fnArgs.rows) :
        /\ startOfDay(fnArgs.rows[w].startDate) <= parseISO(fnResult[k].startDate)
        /\ parseISO(fnResult[k].startDate) <= startOfDay(fnArgs.rows[w].endDate)}

\* the task has a day in week row w
SegOverlapsWeek(w) ==
    /\ parseISO(fnArgs.task.start) <= startOfDay(fnArgs.rows[w].endDate)
    /\ parseISO(fnArgs.task.end) >= startOfDay(fnArgs.rows[w].startDate)

\* C24: every segment produced by calculateTaskSegments has startColumn in
\* 0..6, widthInColumns in 1..7 and startColumn + widthInColumns <= 7; its
\* dates are max(task.start, week.start) and min(task.end, week.end) of one
\* week row, which the task overlaps; there is at most one segment per week
\* row and the segments come in ascending week order.
C24_SegmentShape ==
    fnPhase = "out" =>
        /\ \A k \in 1..Len(fnResult) :
                /\ fnResult[k].startColumn \in 0..6
                /\ fnResult[k].widthInColumns \in 1..7
                /\ fnResult[k].startColumn + fnResult[k].widthInColumns <= 7
                /\ Cardinality(SegWeeksOf(k)) = 1
                /\ \A w \in SegWeeksOf(k) :
                        /\ SegOverlapsWeek(w)
                        /\ fnResult[k].startDate =
                                format(Max(parseISO(fnArgs.task.start),
                                           startOfDay(fnArgs.rows[w].startDate)))
                        /\ fnResult[k].endDate =
                                format(Min(parseISO(fnArgs.task.end),
                                           startOfDay(fnArgs.rows[w].endDate)))
        /\ \A k \in 1..(Len(fnResult) - 1) :
                \A v \in SegWeeksOf(k), w \in SegWeeksOf(k + 1) : v < w

\* a task from the middle of one week to the middle of the week after the
\* next came out as three segments: the rest of the first week, the whole
\* second week and the beginning of the third
C24_Witness ==
    /\ fnPhase = "out"
    /\ Len(fnResult) = 3
    /\ fnResult[1].startColumn > 0
    /\ fnResult[1].startColumn + fnResult[1].widthInColumns = 7
    /\ fnResult[1].startDate = fnArgs.task.start
    /\ fnResult[2].startColumn = 0 /\ fnResult[2].widthInColumns = 7
    /\ fnResult[3].startColumn = 0 /\ fnResult[3].widthInColumns < 7
    /\ fnResult[3].endDate = fnArgs.task.end
    /\ \E w \in 1..(Len(fnArgs.rows) - 2) :
            SegWeeksOf(1) = {w} /\ SegWeeksOf(2) = {w + 1} /\ SegWeeksOf(3) = {w + 2}

\* the segments of the tasks, computed against the grid
GroupSegments == fnArgs.taskSegments

\* the same segment, whatever its rowIndex
SameSegment(a, b) == [a EXCEPT !.rowIndex = 0] = [b EXCEPT !.rowIndex = 0]

\* where a segment is found in the groups: week index and position
GroupPlaces(segment) ==
    {<<w, k>> \in (DOMAIN fnResult) \X (1..7 * Len(GroupSegments)) :
        k <= Len(fnResult[w]) /\ SameSegment(fnResult[w][k], segment)}

\* the zero-based indices of the week rows that hold the date
GroupWeeksOf(isoDate) ==
    {w \in 0..(Len(fnArgs.rows) - 1) :
        /\ startOfDay(fnArgs.rows[w + 1].startDate) <= parseISO(isoDate)
        /\ parseISO(isoDate) <= startOfDay(fnArgs.rows[w + 1].endDate)}

\* the segments whose start date lies in week w, in their order
GroupOwn(w) ==
    LET own(segment) == w \in GroupWeeksOf(segment.startDate)
    IN  SelectSeq(GroupSegments, own)

\* C25: groupSegmentsByWeek partitions the segments: every segment computed
\* against the grid appears in exactly one week's group, that of the week row
\* containing its start date, and the groups hold nothing else; weeks with no
\* segment have no entry; and row indices are assigned independently per week:
\* the group of a week is what grouping the segments of that week alone gives.
C25_GroupsPartition ==
    fnPhase = "out" =>
        /\ \A i \in 1..Len(GroupSegments) :
                /\ Cardinality(GroupPlaces(GroupSegments[i])) = 1
                /\ \A p \in GroupPlaces(GroupSegments[i]) :
                        GroupWeeksOf(GroupSegments[i].startDate) = {p[1]}
        /\ \A w \in DOMAIN fnResult :
                /\ fnResult[w] # <<>>
                /\ \A k \in 1..Len(fnResult[w]) :
                        \E i \in 1..Len(GroupSegments) :
                            SameSegment(fnResult[w][k], GroupSegments[i])
        /\ DOMAIN fnResult =
                {w \in 0..(Len(fnArgs.rows) - 1) : GroupOwn(w) # <<>>}
        /\ \A w \in DOMAIN fnResult :
                groupSegmentsByWeek(GroupOwn(w), fnArgs.rows) = (w :> fnResult[w])

\* two tasks in different weeks, the columns of their segments intersecting,
\* were grouped: each is alone in the group of its week, in row 0
C25_Witness ==
    /\ fnPhase = "out"
    /\ Len(GroupSegments) = 2
    /\ ColumnsIntersect(GroupSegments[1], GroupSegments[2])
    /\ \E v, w \in DOMAIN fnResult :
            /\ v < w
            /\ DOMAIN fnResult = {v, w}
            /\ Len(fnResult[v]) = 1 /\ fnResult[v][1].task.id = 1
            /\ Len(fnResult[w]) = 1 /\ fnResult[w][1].task.id = 2
            /\ fnResult[v][1].rowIndex = 0
            /\ fnResult[w][1].rowIndex = 0

\* C26: a TASK_MOVE or TASK_RESIZE for task T changes only T's start and end:
\* T's id, name and category, every other task, the order and length of the
\* task list, and the selection, modal, filter and month state are unchanged.
C26_MoveResizeFrame ==
    [][last'.type \in {"TASK_MOVE", "TASK_RESIZE"} =>
        /\ Len(state'.tasks) = Len(state.tasks)
        /\ \A i \in 1..Len(state.tasks) :
                /\ state'.tasks[i].id = state.tasks[i].id
                /\ state'.tasks[i].name = state.tasks[i].name
                /\ state'.tasks[i].category = state.tasks[i].category
                /\ state.tasks[i].id # last'.n => state'.tasks[i] = state.tasks[i]
        /\ state'.selection = state.selection
        /\ state'.modal = state.modal
        /\ state'.filters = state.filters
        /\ state'.currentMonth = state.currentMonth
    ]_vars

\* the second of two tasks has been resized, next to a first task of other
\* dates, in a store that also holds a selection in progress, an open modal and filters
C26_Witness ==
    /\ last.type = "TASK_RESIZE"
    /\ last.n = 2
    /\ Len(state.tasks) = 2
    /\ state.tasks[2].start = 20240229 /\ state.tasks[2].end = 20240301
    /\ state.tasks[1].start = 20240228 /\ state.tasks[1].end = 20240228
    /\ state.selection.isSelecting
    /\ state.modal.open
    /\ state.filters # NoFilters

\* the store after a task of that name and category was created over the
\* draft range: the task is appended, the other tasks are as they were, the
\* modal is closed and the selection cleared
CreatedFrom(name, category) ==
    /\ Len(state'.tasks) = Len(state.tasks) + 1
    /\ SubSeq(state'.tasks, 1, Len(state.tasks)) = state.tasks
    /\ state'.tasks[Len(state'.tasks)].name = name
    /\ state'.tasks[Len(state'.tasks)].category = category
    /\ state'.tasks[Len(state'.tasks)].start = state.modal.draftRange.start
    /\ state'.tasks[Len(state'.tasks)].end = state.modal.draftRange.end
    /\ ~state'.modal.open
    /\ state'.modal.draftRange = NoRange
    /\ state'.selection = NoSelection
    /\ state'.filters = state.filters
    /\ state'.currentMonth = state.currentMonth

\* C27: creating a task appends exactly one task to the end of the list, with
\* the submitted name and category and with start/end equal to the normalized
\* range committed by the selection that opened the modal (the draft range,
\* which SELECTION_END sets to normalizeDateRange of the selection); all
\* existing tasks are unchanged, the modal is closed and the selection is
\* cleared; with no draft range present nothing is created.
C27_CreateAppends ==
    /\ [](state.modal.draftRange # NoRange =>
            parseISO(state.modal.draftRange.start) <= parseISO(state.modal.draftRange.end))
    /\ [][last'.type = "SELECTION_END" /\ state'.modal.draftRange # state.modal.draftRange =>
            state'.modal.draftRange =
                normalizeDateRange(state.selection.start, state.selection.end)]_vars
    /\ [][\A name \in StoreNames, category \in CategoryInputs :
            CreateTaskCreate(name, category) =>
                IF state.modal.draftRange = NoRange
                THEN state' = state
                ELSE CreatedFrom(name, category)]_vars

\* a third task has been created over a range of several days, behind the
\* two tasks the store held, which are as they were
C27_Witness ==
    /\ last.type = "TASK_CREATE"
    /\ last.d1 # Undefined
    /\ parseISO(last.d1) < parseISO(last.d2)
    /\ Len(state.tasks) = 3
    /\ state.tasks[1].id = 1 /\ state.tasks[1].name = <<"a">>
    /\ state.tasks[2].id = 2 /\ state.tasks[2].name = <<"b">>
    /\ state.tasks[3].name = <<Quote, Backslash>>
    /\ state.tasks[3].category = "Review"
    /\ state.tasks[3].start = last.d1
    /\ state.tasks[3].end = last.d2
    /\ ~state.modal.open
    /\ ~state.selection.isSelecting

\* C28: in every reachable state the selection's start and end are both
\* present exactly when isSelecting is true, and neither is present while no
\* selection is in progress; the selection is fully cleared on completion
\* (SELECTION_END), on modal close and on task creation.
C28_SelectionDatesIffSelecting ==
    /\ [](/\ (state.selection.start # Undefined /\ state.selection.end # Undefined)
                <=> state.selection.isSelecting
          /\ ~state.selection.isSelecting =>
                state.selection.start = Undefined /\ state.selection.end = Undefined)
    /\ [][(\/ last'.type \in {"SELECTION_END", "MODAL_CLOSE"}
           \/ last'.type = "TASK_CREATE" /\ last'.d1 # Undefined)
            => state'.selection = NoSelection]_vars

\* a selection that was in progress over two different dates has been
\* completed: the modal is open with its range and the selection holds
\* nothing
C28_Witness ==
    /\ last.type = "SELECTION_END"
    /\ last.d1 # Undefined
    /\ last.d2 # Undefined
    /\ last.d1 # last.d2
    /\ state.modal.open
    /\ state.selection = NoSelection

\* the bars in a move drag: dragging and resizing no edge
MoveDragBars == {k \in DraggingBars : bars[k].isResizing = "null"}

C30_MapperResolvesColumn ==
    \A k \in DOMAIN bars : \A x \in PointerXs :
        /\ findDateAtX(weekRows, k, x) = ColumnDate(k, x)
        /\ \E i \in 1..7 : findDateAtX(weekRows, k, x) = weekRows[k[2] + 1].days[i].isoDate

\* the arguments are the task 2024-03-05..2024-03-20 and the grid of March 2024
SegMarchExample ==
    /\ fnArgs.task.start = 20240305
    /\ fnArgs.task.end = 20240320
    /\ fnArgs.rows = generateMonthGrid(parseISO(20240301), ClockNow)

\* the segment is of these dates, at that column, that many columns wide
SegmentIs(segment, startDate, endDate, startColumn, widthInColumns) ==
    /\ segment.startDate = startDate
    /\ segment.endDate = endDate
    /\ segment.startColumn = startColumn
    /\ segment.widthInColumns = widthInColumns

\* C31: the grid of March 2024 has weeks starting on Sunday, the first on
\* 2024-02-25, and against it the task 2024-03-05..2024-03-20 yields exactly 3
\* segments: [3/5,3/9] at startColumn 2, 5 wide; [3/10,3/16] at startColumn 0,
\* 7 wide; and [3/17,3/20] at startColumn 0, 4 wide.
C31_MarchExample ==
    fnPhase = "out" /\ SegMarchExample =>
        /\ fnArgs.rows[1].days[1].isoDate = 20240225
        /\ \A w \in 1..Len(fnArgs.rows) : getDay(fnArgs.rows[w].startDate) = 0
        /\ Len(fnResult) = 3
        /\ SegmentIs(fnResult[1], 20240305, 20240309, 2, 5)
        /\ SegmentIs(fnResult[2], 20240310, 20240316, 0, 7)
        /\ SegmentIs(fnResult[3], 20240317, 20240320, 0, 4)
        /\ \A k \in 1..3 : fnResult[k].task = fnArgs.task

\* calculateTaskSegments has run on the task 2024-03-05..2024-03-20 and the
\* grid of March 2024, and the first segment it returned starts on 2024-03-05
C31_Witness ==
    /\ fnPhase = "out"
    /\ SegMarchExample
    /\ fnResult # <<>>
    /\ fnResult[1].startDate = 20240305

\* the number of rows the stacked segments use: the highest rowIndex + 1
RowsUsed(segments) ==
    IF segments = <<>> THEN 0
    ELSE 1 + Max(0, CHOOSE r \in {segments[i].rowIndex : i \in 1..Len(segments)} :
                        \A i \in 1..Len(segments) : segments[i].rowIndex <= r)

\* the number of segments that cover column c
CoverOf(segments, c) ==
    Cardinality({i \in 1..Len(segments) :
        c \in segments[i].startColumn..(segments[i].startColumn
                                          + segments[i].widthInColumns - 1)})

\* the largest number of segments that cover one column
MaxCover(segments) ==
    CHOOSE n \in 0..Len(segments) :
        /\ \A c \in 0..6 : CoverOf(segments, c) <= n
        /\ n = 0 \/ \E c \in 0..6 : CoverOf(segments, c) = n

\* C32: for every list of segments of one week, the number of rows used by
\* calculateRowIndices (highest rowIndex + 1) equals the largest number of
\* segments that cover any single column: the stacking uses no more rows than
\* the minimum possible.
C32_RowsAreMinimal ==
    fnPhase = "out" => RowsUsed(fnResult) = MaxCover(fnResult)

\* four segments, the second of them starting to the right of the third and
\* the fourth, no column under more than two of them, were stacked in two rows
C32_Witness ==
    /\ fnPhase = "out"
    /\ Len(fnResult) = 4
    /\ fnResult[2].startColumn > fnResult[3].startColumn
    /\ fnResult[2].startColumn > fnResult[4].startColumn
    /\ ColumnsIntersect(fnResult[4], fnResult[1]) = FALSE
    /\ ColumnsIntersect(fnResult[4], fnResult[2])
    /\ ColumnsIntersect(fnResult[4], fnResult[3])
    /\ ColumnsIntersect(fnResult[3], fnResult[1])
    /\ MaxCover(fnResult) = 2
    /\ RowsUsed(fnResult) = 2

\* an open modal holds a draft range in order, a closed modal holds none
ModalWellFormed ==
    IF state.modal.open
    THEN /\ state.modal.draftRange # NoRange
         /\ state.modal.draftRange.start # Undefined
         /\ state.modal.draftRange.end # Undefined
         /\ parseISO(state.modal.draftRange.start) <= parseISO(state.modal.draftRange.end)
    ELSE state.modal.draftRange = NoRange

\* C33: in every reachable state the creation modal is open only if it holds
\* a draft range with start <= end, and a closed modal holds no draft range;
\* the modal opens only as the result of a pointer-up that ends a selection in
\* progress, and a pointer-up in Idle leaves the modal as it is.
C33_ModalOpensFromSelection ==
    /\ []ModalWellFormed
    /\ [][~state.modal.open /\ state'.modal.open =>
            last'.type = "pointerUp" /\ state.selection.isSelecting]_vars
    /\ [][last'.type = "pointerUp" /\ ~state.selection.isSelecting =>
            state'.modal = state.modal]_vars

\* a selection dragged forward over two days has been released in a store
\* without tasks: the modal is open and holds the two days in order
C33_Witness ==
    /\ last.type = "pointerUp"
    /\ last.d1 # Undefined
    /\ parseISO(last.d1) < parseISO(last.d2)
    /\ state.modal.open
    /\ state.modal.draftRange.start = last.d1
    /\ state.modal.draftRange.end = last.d2
    /\ state.tasks = <<>>

\* C34: a TASK_MOVE or TASK_RESIZE whose taskId matches no task in the store
\* leaves the task list and every other part of the state unchanged: no task
\* is created, removed or altered.
C34_UnknownTaskIgnored ==
    [][(/\ last'.type \in {"TASK_MOVE", "TASK_RESIZE"}
        /\ \A i \in 1..Len(state.tasks) : state.tasks[i].id # last'.n)
            => state' = state]_vars

\* a resize for an id no task has arrived in a store of two tasks with a
\* selection in progress and an open modal: the two tasks are there, as the
\* only ones
C34_Witness ==
    /\ last.type = "TASK_RESIZE"
    /\ last.d1 # last.d2
    /\ Len(state.tasks) = 2
    /\ \A i \in 1..2 : state.tasks[i].id # last.n
    /\ state.tasks[1].id = 1
    /\ state.tasks[2].id = 2
    /\ state.selection.isSelecting
    /\ state.modal.open

\* C35: submitting the task modal creates a task only when the name is
\* non-empty after trimming: a submit with an empty or whitespace-only name
\* creates nothing and leaves the modal open with its draft range; a valid
\* submit creates the task with the trimmed name, the chosen category and the
\* draft range, and closes the modal.
C35_SubmitNeedsName ==
    [][last'.type = "submit" =>
        IF trim(last'.name) = <<>>
        THEN /\ state' = state
             /\ state'.modal.open
             /\ state'.modal.draftRange # NoRange
        ELSE /\ Len(state'.tasks) = Len(state.tasks) + 1
             /\ SubSeq(state'.tasks, 1, Len(state.tasks)) = state.tasks
             /\ state'.tasks[Len(state'.tasks)].name = trim(last'.name)
             /\ state'.tasks[Len(state'.tasks)].name # <<>>
             /\ state'.tasks[Len(state'.tasks)].category = last'.category
             /\ state'.tasks[Len(state'.tasks)].start = state.modal.draftRange.start
             /\ state'.tasks[Len(state'.tasks)].end = state.modal.draftRange.end
             /\ state'.modal = ClosedModal
    ]_vars

\* the modal was submitted with the name " a": the task is named "a" and the
\* modal is closed
C35_Witness ==
    /\ last.type = "submit"
    /\ last.name = <<" ", "a">>
    /\ Len(state.tasks) = 1
    /\ state.tasks[1].name = <<"a">>
    /\ state.tasks[1].category = last.category
    /\ ~state.modal.open

\* the modal was submitted with a name of one space: nothing was created and
\* the modal is open, holding its draft range
C35_WitnessBlank ==
    /\ last.type = "submit"
    /\ last.name = <<" ">>
    /\ state.tasks = <<>>
    /\ state.modal.open
    /\ state.modal.draftRange # NoRange

=============================================================================
